---- MODULE Spec2Model ----
(***************************************************************************)
(* sync-kit: export of working-tree changes into an archive and import of  *)
(* that archive into a target directory (conflict detection, backup,       *)
(* ordered apply, history).                                                *)
(*                                                                         *)
(* Path strings are sequences of one-character strings, so that            *)
(* node:path's resolve()/join() and String.startsWith() are computed on    *)
(* the characters as the code computes them (POSIX flavour: "/" is the     *)
(* only separator, "\" is an ordinary character of a file name).           *)
(***************************************************************************)
EXTENDS Integers, Sequences, FiniteSets, TLC

(***************************************************************************)
(* Bounds of the model.                                                    *)
(***************************************************************************)
MaxBaseDepth == 3

(***************************************************************************)
(* Characters and strings.                                                 *)
(***************************************************************************)
SEP == "/"
DOT == "."

StartsWith(s, p) ==
    /\ Len(p) <= Len(s)
    /\ SubSeq(s, 1, Len(p)) = p

(* the path segments of a string: split on "/", empty segments dropped *)
RECURSIVE SplitFrom(_, _, _)
SplitFrom(s, i, cur) ==
    IF i > Len(s)
    THEN IF cur = << >> THEN << >> ELSE << cur >>
    ELSE IF s[i] = SEP
         THEN (IF cur = << >> THEN << >> ELSE << cur >>) \o SplitFrom(s, i + 1, << >>)
         ELSE SplitFrom(s, i + 1, Append(cur, s[i]))

Segments(s) == SplitFrom(s, 1, << >>)

isAbsolute(s) == Len(s) > 0 /\ s[1] = SEP

DOTDOT == << DOT, DOT >>

(* node:path normalizeString: "." dropped, ".." pops a segment; above the  *)
(* root ".." is dropped, above a relative start it is kept.                *)
RECURSIVE NormalizeSegs(_, _, _)
NormalizeSegs(segs, abs, acc) ==
    IF segs = << >> THEN acc
    ELSE LET g == Head(segs) IN
         IF g = << DOT >> THEN NormalizeSegs(Tail(segs), abs, acc)
         ELSE IF g = DOTDOT
              THEN IF acc # << >> /\ acc[Len(acc)] # DOTDOT
                   THEN NormalizeSegs(Tail(segs), abs, SubSeq(acc, 1, Len(acc) - 1))
                   ELSE IF abs
                        THEN NormalizeSegs(Tail(segs), abs, acc)
                        ELSE NormalizeSegs(Tail(segs), abs, Append(acc, g))
              ELSE NormalizeSegs(Tail(segs), abs, Append(acc, g))

RECURSIVE JoinSegs(_)
JoinSegs(segs) ==
    IF segs = << >> THEN << >>
    ELSE IF Len(segs) = 1 THEN Head(segs)
         ELSE Head(segs) \o << SEP >> \o JoinSegs(Tail(segs))

(* node:path normalize() without the trailing-separator rule *)
normalize(s) ==
    LET abs  == isAbsolute(s)
        segs == NormalizeSegs(Segments(s), abs, << >>)
    IN  IF abs THEN << SEP >> \o JoinSegs(segs)
        ELSE IF segs = << >> THEN << DOT >> ELSE JoinSegs(segs)

(* node:path join(a, b): the non-empty parts glued with "/" and normalized *)
join(a, b) ==
    IF a = << >> /\ b = << >> THEN << DOT >>
    ELSE IF a = << >> THEN normalize(b)
    ELSE IF b = << >> THEN normalize(a)
    ELSE normalize(a \o << SEP >> \o b)

join3(a, b, c) == join(join(a, b), c)

(* node:path resolve(...parts) seen from working directory wd: the         *)
(* rightmost absolute part wins, the parts to its right are appended       *)
resolveFrom(wd, a, b) ==
    LET r == IF isAbsolute(b) THEN b
             ELSE IF isAbsolute(a) THEN a \o << SEP >> \o b
             ELSE wd \o << SEP >> \o a \o << SEP >> \o b
        segs == NormalizeSegs(Segments(r), TRUE, << >>)
    IN  << SEP >> \o JoinSegs(segs)

(***************************************************************************)
(* utils/paths.ts                                                          *)
(***************************************************************************)
TRAVERSAL == "Path traversal detected"

safePrefixM(resolvedBase) == resolvedBase

(* the prefix a path inside the base has to start with *)
safePrefix(resolvedBase) == resolvedBase \o << SEP >>

resolveSafePathFromM(wd, basePath, relativePath) ==
    LET resolvedBase == resolveFrom(wd, basePath, << >>)
        resolvedFull == resolveFrom(wd, basePath, relativePath)
    IN  IF ~StartsWith(resolvedFull, safePrefix(resolvedBase))
        THEN [ok |-> FALSE, error |-> TRAVERSAL]
        ELSE [ok |-> TRUE, path |-> resolvedFull]

(* resolveSafePath: [ok |-> TRUE, path |-> resolved] or the thrown error *)
resolveSafePathFrom(wd, basePath, relativePath) ==
    LET resolvedBase == resolveFrom(wd, basePath, << >>)
        resolvedFull == resolveFrom(wd, basePath, relativePath)
    IN  IF ~StartsWith(resolvedFull, safePrefix(resolvedBase)) /\ resolvedFull # resolvedBase
        THEN [ok |-> FALSE, error |-> TRAVERSAL]
        ELSE [ok |-> TRUE, path |-> resolvedFull]

TXT == << ".", "t", "x", "t" >>
FILES == << "f", "i", "l", "e", "s" >>

toArchivePath(filePath) == filePath \o TXT

getFilesDir == FILES

getArchiveFilePath(filePath) == join(getFilesDir, toArchivePath(filePath))

(***************************************************************************)
(* utils/fs.ts over a file system held as                                  *)
(*   f : absolute path -> content   (the regular files)                    *)
(*   d : set of absolute paths      (directories made by ensureDir)        *)
(* A directory also exists when something lies below it.                   *)
(***************************************************************************)
Under(q, p) == q = p \/ StartsWith(q, p \o << SEP >>)

fileExists(f, d, p) ==
    \/ p \in DOMAIN f
    \/ p \in d
    \/ \E q \in (DOMAIN f) \cup d : StartsWith(q, p \o << SEP >>)

(* rm(path, {recursive, force}) *)
remove(f, p) == [q \in { r \in DOMAIN f : ~Under(r, p) } |-> f[q]]

writeFile(f, p, content) ==
    [q \in (DOMAIN f) \cup { p } |-> IF q = p THEN content ELSE f[q]]

Rebase(q, src, dest) == dest \o SubSeq(q, Len(src) + 1, Len(q))

copyM(f, src, dest) == f

(* cp(src, dest, {recursive}): the file, or every file below a directory *)
copy(f, src, dest) ==
    LET moved == { r \in DOMAIN f : Under(r, src) }
        image == { Rebase(r, src, dest) : r \in moved }
    IN  [q \in (DOMAIN f) \cup image |->
            IF q \in image
            THEN f[CHOOSE r \in moved : Rebase(r, src, dest) = q]
            ELSE f[q]]

renameM(f, from, to) == copy(f, from, to)

(* fs rename(from, to): the entry moves, an existing file at `to` is replaced *)
rename(f, from, to) ==
    IF from = to THEN f
    ELSE LET moved == { r \in DOMAIN f : Under(r, from) }
             image == { Rebase(r, from, to) : r \in moved }
             kept  == { r \in DOMAIN f : ~Under(r, from) /\ ~Under(r, to) }
         IN  [q \in kept \cup image |->
                 IF q \in image
                 THEN f[CHOOSE r \in moved : Rebase(r, from, to) = q]
                 ELSE f[q]]

hashBuffer(content) == << "sha256:" >> \o content

hashFile(f, p) == hashBuffer(f[p])

(***************************************************************************)
(* core/archive.ts: the archive is its manifest entry and its payload      *)
(* entries, entry name -> content.                                         *)
(***************************************************************************)
NULL == << "null" >>

getFileFromArchive(entries, filePath) ==
    LET archivePath == getArchiveFilePath(filePath)
    IN  IF archivePath \notin DOMAIN entries THEN NULL ELSE entries[archivePath]

(***************************************************************************)
(* utils/paths.ts normalizePath and core/git.ts detectChanges              *)
(***************************************************************************)
BSL == "\\"

(* filePath.replace(/\\/g, '/') *)
normalizePath(filePath) ==
    [i \in 1..Len(filePath) |-> IF filePath[i] = BSL THEN SEP ELSE filePath[i]]

NO_HASH == << >>
NO_FROM == << >>

alreadyProcessedM(processedPaths, path) == FALSE

(* processedPaths.has(path) at the head of addChange *)
alreadyProcessed(processedPaths, path) == path \in processedPaths

addChangeSubmoduleM(acc, type, path, from, submodules, files) ==
    IF alreadyProcessed(acc.processedPaths, path) THEN acc
    ELSE LET claimed == acc.processedPaths \cup { path } IN
         IF type # "delete"
         THEN IF path \notin DOMAIN files
              THEN [changes |-> acc.changes, processedPaths |-> claimed]
              ELSE [changes |-> Append(acc.changes,
                                   [type |-> type, path |-> path, from |-> from,
                                    size |-> Len(files[path]),
                                    hash |-> hashBuffer(files[path])]),
                    processedPaths |-> claimed]
         ELSE [changes |-> Append(acc.changes,
                              [type |-> type, path |-> path, from |-> from,
                               size |-> 0, hash |-> NO_HASH]),
               processedPaths |-> claimed]

addChangeM(acc, type, path, from, submodules, files) ==
    IF alreadyProcessed(acc.processedPaths, path) THEN acc
    ELSE IF path \in submodules THEN acc
    ELSE [changes |-> Append(acc.changes,
                         [type |-> type, path |-> path, from |-> from,
                          size |-> IF type = "delete" \/ path \notin DOMAIN files
                                   THEN 0 ELSE Len(files[path]),
                          hash |-> IF type = "delete" \/ path \notin DOMAIN files
                                   THEN NO_HASH ELSE hashBuffer(files[path])]),
          processedPaths |-> acc.processedPaths \cup { path }]

(* addChange on the accumulator [changes, processedPaths]; files is the    *)
(* repository's regular files, path -> content                             *)
addChange(acc, type, path, from, submodules, files) ==
    IF alreadyProcessed(acc.processedPaths, path) THEN acc
    ELSE IF path \in submodules THEN acc
    ELSE LET claimed == acc.processedPaths \cup { path } IN
         IF type # "delete"
         THEN IF path \notin DOMAIN files
              THEN [changes |-> acc.changes, processedPaths |-> claimed]
              ELSE [changes |-> Append(acc.changes,
                                   [type |-> type, path |-> path, from |-> from,
                                    size |-> Len(files[path]),
                                    hash |-> hashBuffer(files[path])]),
                    processedPaths |-> claimed]
         ELSE [changes |-> Append(acc.changes,
                              [type |-> type, path |-> path, from |-> from,
                               size |-> 0, hash |-> NO_HASH]),
               processedPaths |-> claimed]

(* for (const file of status.renamed) *)
RECURSIVE RenamedLoop(_, _, _, _)
RenamedLoop(acc, renamed, submodules, files) ==
    IF renamed = << >> THEN acc
    ELSE RenamedLoop(
            addChange(acc, "rename", normalizePath(Head(renamed).to),
                      normalizePath(Head(renamed).from), submodules, files),
            Tail(renamed), submodules, files)

(* the loops over created and deleted: addChange for every entry *)
RECURSIVE PlainLoop(_, _, _, _, _)
PlainLoop(acc, type, list, submodules, files) ==
    IF list = << >> THEN acc
    ELSE PlainLoop(
            addChange(acc, type, normalizePath(Head(list)), NO_FROM, submodules, files),
            type, Tail(list), submodules, files)

(* the loops over modified, staged and not_added: addChange unless the     *)
(* path is in processedPaths                                               *)
RECURSIVE GuardedLoop(_, _, _, _, _)
GuardedLoop(acc, type, list, submodules, files) ==
    IF list = << >> THEN acc
    ELSE LET normalizedPath == normalizePath(Head(list)) IN
         GuardedLoop(
            IF normalizedPath \notin acc.processedPaths
            THEN addChange(acc, type, normalizedPath, NO_FROM, submodules, files)
            ELSE acc,
            type, Tail(list), submodules, files)

detectChangesM(status, submodules, files) ==
    LET a0 == [changes |-> << >>, processedPaths |-> { }]
        a1 == RenamedLoop(a0, status.renamed, submodules, files)
        a2 == PlainLoop(a1, "add", status.created, submodules, files)
        a3 == GuardedLoop(a2, "add", status.not_added, submodules, files)
        a4 == GuardedLoop(a3, "modify", status.modified \o status.staged, submodules, files)
        a5 == PlainLoop(a4, "delete", status.deleted, submodules, files)
    IN  a5.changes

(* git.ts lines 143-178: the five loops, in the order they run *)
detectChanges(status, submodules, files) ==
    LET a0 == [changes |-> << >>, processedPaths |-> { }]
        a1 == RenamedLoop(a0, status.renamed, submodules, files)
        a2 == PlainLoop(a1, "add", status.created, submodules, files)
        a3 == GuardedLoop(a2, "modify", status.modified \o status.staged, submodules, files)
        a4 == PlainLoop(a3, "delete", status.deleted, submodules, files)
        a5 == GuardedLoop(a4, "add", status.not_added, submodules, files)
    IN  a5.changes

(* `git ls-files` prints paths in byte order; the characters the model's   *)
(* paths are made of, in that order                                        *)
CharOrder ==
    << "-", ".", "/", "0", "1", "2", "3", "4", "5", "6", "7", "8", "9", "_", "a", "b", "c", "d", "e", "f", "g", "h", "i", "j", "k",
       "l", "m", "n", "o", "p", "q", "r", "s", "t", "u", "v", "w", "x", "y", "z" >>

Rank(c) == CHOOSE i \in 1..Len(CharOrder) : CharOrder[i] = c

RECURSIVE PathLess(_, _)
PathLess(p, q) ==
    IF p = << >> THEN q # << >>
    ELSE IF q = << >> THEN FALSE
    ELSE IF Head(p) = Head(q) THEN PathLess(Tail(p), Tail(q))
    ELSE Rank(Head(p)) < Rank(Head(q))

RECURSIVE lsSorted(_)
lsSorted(S) ==
    IF S = { } THEN << >>
    ELSE LET first == CHOOSE x \in S : \A y \in S \ { x } : PathLess(x, y)
         IN  << first >> \o lsSorted(S \ { first })

(* the lines of `git ls-files`: every path of the index, an unmerged path  *)
(* once per stage it has (here two)                                        *)
RECURSIVE Stages(_, _)
Stages(sorted, unmerged) ==
    IF sorted = << >> THEN << >>
    ELSE (IF Head(sorted) \in unmerged
          THEN << Head(sorted), Head(sorted) >> ELSE << Head(sorted) >>)
            \o Stages(Tail(sorted), unmerged)

(* git.ts lines 60-67 *)
getTrackedFiles(tracked, unmerged) ==
    LET lines == Stages(lsSorted(tracked), unmerged)
    IN  [i \in 1..Len(lines) |-> normalizePath(lines[i])]

(* git.ts lines 72-79: `git ls-files --others --exclude-standard`, with no *)
(* ignore rules in the repository                                          *)
getUntrackedFiles(tracked, files) ==
    LET lines == lsSorted(DOMAIN files \ tracked)
    IN  [i \in 1..Len(lines) |-> normalizePath(lines[i])]

(* [...new Set(list)]: the first occurrence of every element, in order *)
RECURSIVE SetOrder(_, _)
SetOrder(list, seen) ==
    IF list = << >> THEN << >>
    ELSE IF Head(list) \in seen THEN SetOrder(Tail(list), seen)
    ELSE << Head(list) >> \o SetOrder(Tail(list), seen \cup { Head(list) })

(* git.ts lines 192-200: the loop over allFiles *)
RECURSIVE SnapshotLoop(_, _)
SnapshotLoop(allFiles, files) ==
    IF allFiles = << >> THEN << >>
    ELSE LET filePath == Head(allFiles) IN
         (IF filePath \in DOMAIN files
          THEN << [type |-> "add", path |-> filePath, from |-> NO_FROM,
                   size |-> Len(files[filePath]),
                   hash |-> hashBuffer(files[filePath])] >>
          ELSE << >>)
            \o SnapshotLoop(Tail(allFiles), files)

getAllFilesM(trackedFiles, untrackedFiles, files) ==
    SnapshotLoop(trackedFiles \o untrackedFiles, files)

(* git.ts lines 183-203 *)
getAllFiles(trackedFiles, untrackedFiles, files) ==
    LET allFiles == SetOrder(trackedFiles \o untrackedFiles, { })
    IN  SnapshotLoop(allFiles, files)

(* git.ts lines 35-48, `dirty: !status.isClean()`: the tree is not clean   *)
(* when it has an untracked file, an unmerged path or a tracked path that  *)
(* is gone; a tracked file with changed content makes it dirty too, which  *)
(* the model, holding no committed contents, does not show                 *)
isClean(tracked, unmerged, files) ==
    /\ DOMAIN files \subseteq tracked
    /\ tracked \subseteq DOMAIN files
    /\ unmerged = { }

getSourceInfo(tracked, unmerged, files) ==
    [repo |-> << "r" >>, branch |-> << "m" >>, commit |-> << "c" >>,
     dirty |-> ~isClean(tracked, unmerged, files)]

(***************************************************************************)
(* core/diff.ts                                                            *)
(***************************************************************************)
typeOrderM == [delete |-> 1, rename |-> 0, modify |-> 2, add |-> 3]

typeOrder == [delete |-> 0, rename |-> 1, modify |-> 2, add |-> 3]

(* Array.prototype.sort with the comparator typeOrder[a] - typeOrder[b];   *)
(* the sort is stable: an element goes behind every element that does not  *)
(* compare greater than it.                                                *)
RECURSIVE InsertStable(_, _)
InsertStable(sorted, x) ==
    IF sorted = << >> THEN << x >>
    ELSE IF typeOrder[Head(sorted).type] - typeOrder[x.type] <= 0
         THEN << Head(sorted) >> \o InsertStable(Tail(sorted), x)
         ELSE << x >> \o sorted

RECURSIVE SortInto(_, _)
SortInto(sorted, rest) ==
    IF rest = << >> THEN sorted
    ELSE SortInto(InsertStable(sorted, Head(rest)), Tail(rest))

sortOperationsForApply(operations) == SortInto(<< >>, operations)

(* string concatenation `${targetDir}/${path}`, as the file system reads it *)
LocalPath(targetDir, path) == normalize(targetDir \o << SEP >> \o path)

(* lines 19-24: the paths the target's status lists as modified, staged or *)
(* not_added, each through normalizePath                                   *)
modifiedFilesOf(status) ==
    { normalizePath(status.modified[i]) : i \in 1..Len(status.modified) }
        \cup { normalizePath(status.staged[i]) : i \in 1..Len(status.staged) }
        \cup { normalizePath(status.not_added[i]) : i \in 1..Len(status.not_added) }

(* The conflicts one operation raises, in the order they are pushed; the   *)
(* field `op` (the operation's position in the manifest) is bookkeeping of *)
(* the model and is not read by the program.                               *)

addConflictsM(op, localPath, f, d) ==
    IF fileExists(f, d, localPath) /\ localPath \in DOMAIN f /\ op.hash # << >>
    THEN << [path |-> op.path, reason |-> "already_exists", op |-> op.id] >>
    ELSE << >>

(* case 'add', on a destination that is a regular file or missing *)
addConflicts(op, localPath, f, d) ==
    IF fileExists(f, d, localPath) /\ localPath \in DOMAIN f
       /\ op.hash # << >> /\ hashFile(f, localPath) # op.hash
    THEN << [path |-> op.path, reason |-> "already_exists", op |-> op.id] >>
    ELSE << >>

(* case 'add' when the destination exists and is no regular file: hashFile *)
(* throws `Not a file`                                                     *)
addThrows(op, localPath, f, d) ==
    op.type = "add" /\ fileExists(f, d, localPath) /\ localPath \notin DOMAIN f

modifyConflictsM(op, localPath, f, d, modifiedFiles) ==
    IF normalizePath(op.path) \in modifiedFiles
    THEN << [path |-> op.path, reason |-> "modified_locally", op |-> op.id] >>
    ELSE << >>

(* case 'modify' *)
modifyConflicts(op, localPath, f, d, modifiedFiles) ==
    IF fileExists(f, d, localPath) /\ normalizePath(op.path) \in modifiedFiles
    THEN << [path |-> op.path, reason |-> "modified_locally", op |-> op.id] >>
    ELSE << >>

deleteConflictsM(op, localPath, f, d) ==
    IF fileExists(f, d, localPath)
    THEN << [path |-> op.path, reason |-> "deleted_locally", op |-> op.id] >>
    ELSE << >>

(* case 'delete' *)
deleteConflicts(op, localPath, f, d) ==
    IF ~fileExists(f, d, localPath)
    THEN << [path |-> op.path, reason |-> "deleted_locally", op |-> op.id] >>
    ELSE << >>

renameConflictsM(op, targetDir, localPath, f, d) ==
    IF op.from # << >>
    THEN IF ~fileExists(f, d, LocalPath(targetDir, op.from))
         THEN << [path |-> op.from, reason |-> "deleted_locally", op |-> op.id] >>
         ELSE IF fileExists(f, d, localPath)
              THEN << [path |-> op.path, reason |-> "already_exists", op |-> op.id] >>
              ELSE << >>
    ELSE << >>

(* case 'rename' *)
renameConflicts(op, targetDir, localPath, f, d) ==
    IF op.from # << >>
    THEN (IF ~fileExists(f, d, LocalPath(targetDir, op.from))
          THEN << [path |-> op.from, reason |-> "deleted_locally", op |-> op.id] >>
          ELSE << >>)
         \o
         (IF fileExists(f, d, localPath)
          THEN << [path |-> op.path, reason |-> "already_exists", op |-> op.id] >>
          ELSE << >>)
    ELSE << >>

ConflictsOf(op, targetDir, f, d, modifiedFiles) ==
    LET localPath == LocalPath(targetDir, op.path)
    IN  CASE op.type = "add" -> addConflicts(op, localPath, f, d)
          [] op.type = "modify" -> modifyConflicts(op, localPath, f, d, modifiedFiles)
          [] op.type = "delete" -> deleteConflicts(op, localPath, f, d)
          [] op.type = "rename" -> renameConflicts(op, targetDir, localPath, f, d)

RECURSIVE detectConflicts(_, _, _, _, _)
detectConflicts(operations, targetDir, f, d, status) ==
    IF operations = << >> THEN << >>
    ELSE ConflictsOf(Head(operations), targetDir, f, d, modifiedFilesOf(status))
            \o detectConflicts(Tail(operations), targetDir, f, d, status)

(* whether the call ends in the error hashFile throws *)
detectConflictsThrows(operations, targetDir, f, d) ==
    \E i \in 1..Len(operations) :
        addThrows(operations[i], LocalPath(targetDir, operations[i].path), f, d)

(***************************************************************************)
(* core/backup.ts                                                          *)
(***************************************************************************)
BACKUP_DIR == << ".", "s", "y", "n", "c", "-", "b", "a", "c", "k", "u", "p" >>
BACKUP_PREFIX == << "b", "a", "c", "k", "u", "p", "_" >>

TicksPerSecond == 2

Digit(n) == << "0", "1", "2", "3", "4", "5", "6", "7", "8", "9" >>[n + 1]

(* String(n).padStart(2, '0') *)
Pad2(n) == IF n < 10 THEN << "0", Digit(n) >> ELSE << Digit(n \div 10), Digit(n % 10) >>

(* generateTimestamp: the clock (in ticks) cut to whole seconds and        *)
(* formatted; the model's clock stays within one minute, so the date,      *)
(* hour and minute digits are the same for every reading and are left out  *)
generateTimestamp(clock) == Pad2((clock \div TicksPerSecond) % 60)

BackupPathAt(targetDir, clock) ==
    join3(targetDir, BACKUP_DIR, BACKUP_PREFIX \o generateTimestamp(clock))

(* paths.ts lines 52-56 *)
generateArchiveName(mode, clock) ==
    (IF mode = "full" THEN << "s", "n", "a", "p", "s", "h", "o", "t" >> ELSE << "s", "y", "n", "c" >>)
        \o << "_" >> \o generateTimestamp(clock) \o << ".", "z", "i", "p" >>

(* operations.filter(modify | delete | rename) *)
filesToBackup(operations) ==
    SelectSeq(operations, LAMBDA op : op.type \in { "modify", "delete", "rename" })

createBackupReturnsM(i, n) == i >= 1

(* createBackup returns (and the await at import.ts:155 resumes) when its  *)
(* loop has gone through all n files to back up                            *)
createBackupReturns(i, n) == i > n

BackupOneSkipM(op, targetDir, backupDir, f, d) ==
    LET source == resolveSafePathFrom(targetDir, targetDir, op.path)
    IN  IF ~source.ok THEN [ok |-> TRUE, fs |-> f]
        ELSE IF op.type = "rename" /\ op.from # << >>
        THEN LET from == resolveSafePathFrom(targetDir, targetDir, op.from)
             IN  IF ~from.ok THEN [ok |-> TRUE, fs |-> f]
                 ELSE IF fileExists(f, d, from.path)
                 THEN LET dest == resolveSafePathFrom(targetDir, backupDir, op.from)
                      IN  IF ~dest.ok THEN [ok |-> FALSE, error |-> dest.error]
                          ELSE [ok |-> TRUE, fs |-> copy(f, from.path, dest.path)]
                 ELSE [ok |-> TRUE, fs |-> f]
        ELSE IF fileExists(f, d, source.path)
        THEN LET dest == resolveSafePathFrom(targetDir, backupDir, op.path)
             IN  IF ~dest.ok THEN [ok |-> FALSE, error |-> dest.error]
                 ELSE [ok |-> TRUE, fs |-> copy(f, source.path, dest.path)]
        ELSE [ok |-> TRUE, fs |-> f]

BackupOneM(op, targetDir, backupDir, f, d) ==
    LET source == resolveSafePathFrom(targetDir, targetDir, op.path)
    IN  IF ~source.ok THEN [ok |-> FALSE, error |-> source.error]
        ELSE IF fileExists(f, d, source.path)
        THEN LET dest == resolveSafePathFrom(targetDir, backupDir, op.path)
             IN  IF ~dest.ok THEN [ok |-> FALSE, error |-> dest.error]
                 ELSE [ok |-> TRUE, fs |-> copy(f, source.path, dest.path)]
        ELSE [ok |-> TRUE, fs |-> f]

(* one turn of createBackup's loop: the thrown error, or the file system   *)
(* after the copy (unchanged when there is nothing to copy)                *)
BackupOne(op, targetDir, backupDir, f, d) ==
    LET source == resolveSafePathFrom(targetDir, targetDir, op.path)
    IN  IF ~source.ok THEN [ok |-> FALSE, error |-> source.error]
        ELSE IF op.type = "rename" /\ op.from # << >>
        THEN LET from == resolveSafePathFrom(targetDir, targetDir, op.from)
             IN  IF ~from.ok THEN [ok |-> FALSE, error |-> from.error]
                 ELSE IF fileExists(f, d, from.path)
                 THEN LET dest == resolveSafePathFrom(targetDir, backupDir, op.from)
                      IN  IF ~dest.ok THEN [ok |-> FALSE, error |-> dest.error]
                          ELSE [ok |-> TRUE, fs |-> copy(f, from.path, dest.path)]
                 ELSE [ok |-> TRUE, fs |-> f]
        ELSE IF fileExists(f, d, source.path)
        THEN LET dest == resolveSafePathFrom(targetDir, backupDir, op.path)
             IN  IF ~dest.ok THEN [ok |-> FALSE, error |-> dest.error]
                 ELSE [ok |-> TRUE, fs |-> copy(f, source.path, dest.path)]
        ELSE [ok |-> TRUE, fs |-> f]

(* readdir(dir, {withFileTypes}): the names of the entries right below dir *)
readdir(f, d, dir) ==
    { Segments(SubSeq(q, Len(dir) + 1, Len(q)))[1] :
        q \in { r \in (DOMAIN f) \cup d : StartsWith(r, dir \o << SEP >>) } }

(* Dirent.isDirectory() of the entry at p *)
isDirectory(f, d, p) ==
    p \notin DOMAIN f /\ (p \in d \/ \E q \in (DOMAIN f) \cup d : StartsWith(q, p \o << SEP >>))

RECURSIVE reverse(_)
reverse(list) ==
    IF list = << >> THEN << >> ELSE Append(reverse(Tail(list)), Head(list))

listBackupsM(targetDir, f, d) ==
    LET backupDir == join(targetDir, BACKUP_DIR)
    IN  IF ~fileExists(f, d, backupDir) THEN << >>
        ELSE lsSorted({ join(backupDir, name) :
                          name \in { n \in readdir(f, d, backupDir) :
                                       /\ isDirectory(f, d, join(backupDir, n))
                                       /\ StartsWith(n, BACKUP_PREFIX) } })

(* backup.ts lines 73-87; Array.prototype.sort() orders strings by code    *)
(* unit, which for the characters of these paths is the order of lsSorted  *)
listBackups(targetDir, f, d) ==
    LET backupDir == join(targetDir, BACKUP_DIR)
    IN  IF ~fileExists(f, d, backupDir) THEN << >>
        ELSE reverse(lsSorted({ join(backupDir, name) :
                                  name \in { n \in readdir(f, d, backupDir) :
                                               /\ isDirectory(f, d, join(backupDir, n))
                                               /\ StartsWith(n, BACKUP_PREFIX) } }))

(* removeBackup for every element of the list: rm -r of the directory *)
RECURSIVE removeAll(_, _, _)
removeAll(f, d, list) ==
    IF list = << >> THEN [fs |-> f, dirs |-> d]
    ELSE removeAll(remove(f, Head(list)), { x \in d : ~Under(x, Head(list)) }, Tail(list))

(* backup.ts lines 99-115, for keepCount >= 0 *)
cleanOldBackups(targetDir, keep, f, d) ==
    LET backups == listBackups(targetDir, f, d)
    IN  IF Len(backups) <= keep
        THEN [returned |-> 0, fs |-> f, dirs |-> d]
        ELSE LET toRemove == SubSeq(backups, keep + 1, Len(backups))
                 after    == removeAll(f, d, toRemove)
             IN  [returned |-> Len(toRemove), fs |-> after.fs, dirs |-> after.dirs]

(***************************************************************************)
(* core/manifest.ts parseManifest and core/archive.ts                      *)
(* getManifestFromArchive. The archive file is the record                  *)
(*   exists     whether a file lies at archivePath                         *)
(*   manifest   whether it has an entry manifest.json                      *)
(*   version    the manifest's `version` (NO_VERSION when it has none)     *)
(*   opsField   what the manifest's `operations` is: "array", "absent"     *)
(*              or "object" (present, not a list)                          *)
(*   ops        the operations, when opsField is "array"                   *)
(*   entries    the payload entries, entry name -> content                 *)
(***************************************************************************)
MANIFEST_VERSION == << "1.0" >>
NO_VERSION == << >>

(* a FileOperation field that is not set *)
NO_SIZE == -1

(* createManifest lines 14-31: the FileOperation made from one change;     *)
(* `if (change.from)` and `if (change.hash)` are false for an absent and   *)
(* for an empty string                                                     *)
toFileOperation(change) ==
    [type |-> change.type,
     path |-> change.path,
     from |-> IF change.from # NO_FROM THEN change.from ELSE NO_FROM,
     size |-> IF change.size # NO_SIZE /\ change.type # "delete" THEN change.size ELSE NO_SIZE,
     hash |-> IF change.hash # NO_HASH THEN change.hash ELSE NO_HASH]

NoStats == [added |-> 0, modified |-> 0, deleted |-> 0, renamed |-> 0, totalSize |-> 0]

countChangeM(stats, change) ==
    CASE change.type = "add" ->
            [stats EXCEPT !.added = @ + 1, !.totalSize = @ + change.size]
      [] change.type = "modify" ->
            [stats EXCEPT !.modified = @ + 1, !.totalSize = @ + change.size]
      [] change.type = "delete" ->
            [stats EXCEPT !.deleted = @ + 1, !.totalSize = @ + change.size]
      [] change.type = "rename" ->
            [stats EXCEPT !.renamed = @ + 1, !.totalSize = @ + change.size]

(* calculateStats lines 57-73: the switch on one change *)
countChange(stats, change) ==
    CASE change.type = "add" ->
            [stats EXCEPT !.added = @ + 1, !.totalSize = @ + change.size]
      [] change.type = "modify" ->
            [stats EXCEPT !.modified = @ + 1, !.totalSize = @ + change.size]
      [] change.type = "delete" ->
            [stats EXCEPT !.deleted = @ + 1]
      [] change.type = "rename" ->
            [stats EXCEPT !.renamed = @ + 1, !.totalSize = @ + change.size]

RECURSIVE calculateStatsFrom(_, _)
calculateStatsFrom(changes, stats) ==
    IF changes = << >> THEN stats
    ELSE calculateStatsFrom(Tail(changes), countChange(stats, Head(changes)))

calculateStats(changes) == calculateStatsFrom(changes, NoStats)

(* a Manifest whose optional `message` is undefined; no string, the empty  *)
(* string included, equals it                                              *)
NO_MESSAGE == << "undefined" >>

(* new Date().toISOString(): millisecond resolution, so every tick of the  *)
(* clock reads differently; the digits that do not change within the       *)
(* model's minute are left out                                             *)
toISOString(clock) == Pad2(clock % 60)

(* createManifest lines 33-43 *)
createManifest(changes, source, mode, message, now) ==
    [version    |-> MANIFEST_VERSION,
     created    |-> toISOString(now),
     source     |-> source,
     mode       |-> mode,
     message    |-> message,
     stats      |-> calculateStats(changes),
     operations |-> [i \in 1..Len(changes) |-> toFileOperation(changes[i])]]

NoSource == [repo |-> << >>, branch |-> << >>, commit |-> << >>, dirty |-> FALSE]

NoManifest ==
    [version |-> NO_VERSION, created |-> << >>, source |-> NoSource, mode |-> "changes",
     message |-> NO_MESSAGE, stats |-> NoStats, operations |-> << >>]

parseManifestThrowsEmptyM(data) ==
    \/ data.version = NO_VERSION
    \/ data.opsField = "absent"
    \/ data.opsField # "array"
    \/ data.ops = << >>

parseManifestThrowsM(data) == data.version = NO_VERSION

(* !data.version || !data.operations || !Array.isArray(data.operations) *)
parseManifestThrows(data) ==
    \/ data.version = NO_VERSION
    \/ data.opsField = "absent"
    \/ data.opsField # "array"

(* the three throws on the way to the in-memory manifest *)
LoadThrows(a) ==
    \/ ~a.exists
    \/ ~a.manifest
    \/ parseManifestThrows(a)

(***************************************************************************)
(* commands/import.ts: applyOperation                                      *)
(***************************************************************************)
NOT_IN_ARCHIVE == "File not found in archive"

applyOperation(entries, op, targetDir, f, d) ==
    LET targetPath == join(targetDir, op.path)
        content    == getFileFromArchive(entries, op.path)
    IN  CASE op.type \in { "add", "modify" } ->
                IF content = NULL
                THEN [ok |-> FALSE, error |-> NOT_IN_ARCHIVE, fs |-> f]
                ELSE [ok |-> TRUE, fs |-> writeFile(f, targetPath, content)]
          [] op.type = "delete" ->
                IF fileExists(f, d, targetPath)
                THEN [ok |-> TRUE, fs |-> remove(f, targetPath)]
                ELSE [ok |-> TRUE, fs |-> f]
          [] op.type = "rename" ->
                IF op.from # << >>
                THEN LET fromPath == join(targetDir, op.from)
                     IN  IF content # NULL
                         THEN [ok |-> TRUE,
                               fs |-> writeFile(
                                        IF fileExists(f, d, fromPath)
                                        THEN remove(f, fromPath) ELSE f,
                                        targetPath, content)]
                         ELSE IF fileExists(f, d, fromPath)
                         THEN [ok |-> TRUE, fs |-> rename(f, fromPath, targetPath)]
                         ELSE [ok |-> TRUE, fs |-> f]
                ELSE [ok |-> TRUE, fs |-> f]

(***************************************************************************)
(* commands/history.ts                                                     *)
(***************************************************************************)
HISTORY_CAP == 50

HISTORY_DIR == << ".", "s", "y", "n", "c", "-", "h", "i", "s", "t", "o", "r", "y" >>
HISTORY_FILE == << "h", "i", "s", "t", "o", "r", "y", ".", "j", "s", "o", "n" >>

(* history.ts lines 92-99: no file reads as the empty list *)
loadHistory(exists, stored) == IF ~exists THEN << >> ELSE stored

addHistoryEntryM(entries, entry) ==
    LET all == << entry >> \o entries
    IN  SubSeq(all, 1, IF Len(all) < HISTORY_CAP + 1 THEN Len(all) ELSE HISTORY_CAP + 1)

(* entries.unshift(entry); entries.slice(0, 50) *)
addHistoryEntry(entries, entry) ==
    LET all == << entry >> \o entries
    IN  SubSeq(all, 1, IF Len(all) < HISTORY_CAP THEN Len(all) ELSE HISTORY_CAP)

(***************************************************************************)
(* JSON text.  A JSON object is written as the sequence of its members     *)
(* << key, value >> in the order JSON.stringify emits them (the order the  *)
(* properties were created in); a property whose value is undefined is     *)
(* not written at all.  Strings, numbers and booleans stand for their own  *)
(* literals.                                                               *)
(***************************************************************************)
OptMember(key, value, undefined) ==
    IF value = undefined THEN << >> ELSE << << key, value >> >>

HasMember(json, key) == \E i \in 1..Len(json) : json[i][1] = key

(* the value of a member, `undefined` when the object has no such member *)
GetMember(json, key, undefined) ==
    IF HasMember(json, key)
    THEN json[CHOOSE i \in 1..Len(json) : json[i][1] = key][2]
    ELSE undefined

(* JSON.stringify of one FileOperation: type, path, then the optional      *)
(* fields createManifest set                                               *)
stringifyOperation(op) ==
    << << "type", op.type >>, << "path", op.path >> >>
        \o OptMember("from", op.from, NO_FROM)
        \o OptMember("size", op.size, NO_SIZE)
        \o OptMember("hash", op.hash, NO_HASH)

stringifySource(source) ==
    << << "repo", source.repo >>, << "branch", source.branch >>,
       << "commit", source.commit >>, << "dirty", source.dirty >> >>

stringifyStats(stats) ==
    << << "added", stats.added >>, << "modified", stats.modified >>,
       << "deleted", stats.deleted >>, << "renamed", stats.renamed >>,
       << "totalSize", stats.totalSize >> >>

(* manifest.ts lines 96-98: JSON.stringify(manifest, null, 2) *)
serializeManifest(manifest) ==
    << << "version", manifest.version >>,
       << "created", manifest.created >>,
       << "source", stringifySource(manifest.source) >>,
       << "mode", manifest.mode >> >>
        \o OptMember("message", manifest.message, NO_MESSAGE)
        \o << << "stats", stringifyStats(manifest.stats) >>,
              << "operations",
                 [i \in 1..Len(manifest.operations) |->
                     stringifyOperation(manifest.operations[i])] >> >>

parseOperation(json) ==
    [type |-> GetMember(json, "type", ""),
     path |-> GetMember(json, "path", << >>),
     from |-> GetMember(json, "from", NO_FROM),
     size |-> GetMember(json, "size", NO_SIZE),
     hash |-> GetMember(json, "hash", NO_HASH)]

parseSource(json) ==
    [repo   |-> GetMember(json, "repo", << >>),
     branch |-> GetMember(json, "branch", << >>),
     commit |-> GetMember(json, "commit", << >>),
     dirty  |-> GetMember(json, "dirty", FALSE)]

parseStats(json) ==
    [added     |-> GetMember(json, "added", 0),
     modified  |-> GetMember(json, "modified", 0),
     deleted   |-> GetMember(json, "deleted", 0),
     renamed   |-> GetMember(json, "renamed", 0),
     totalSize |-> GetMember(json, "totalSize", 0)]

(* manifest.ts line 83: JSON.parse of a manifest text; `opsField` and      *)
(* `ops` describe data.operations as they do for an archive                *)
JSONparse(json) ==
    [version  |-> GetMember(json, "version", NO_VERSION),
     created  |-> GetMember(json, "created", << >>),
     source   |-> parseSource(GetMember(json, "source", << >>)),
     mode     |-> GetMember(json, "mode", "changes"),
     message  |-> GetMember(json, "message", NO_MESSAGE),
     stats    |-> parseStats(GetMember(json, "stats", << >>)),
     opsField |-> IF HasMember(json, "operations") THEN "array" ELSE "absent",
     ops      |-> LET list == GetMember(json, "operations", << >>) IN
                  [i \in 1..Len(list) |-> parseOperation(list[i])]]

(* manifest.ts lines 82-91: what the call returns (`data as Manifest`) or  *)
(* that it threw                                                           *)
parseManifest(json) ==
    LET data == JSONparse(json) IN
    IF parseManifestThrows(data)
    THEN [threw |-> TRUE, value |-> NoManifest]
    ELSE [threw |-> FALSE,
          value |-> [version    |-> data.version,
                     created    |-> data.created,
                     source     |-> data.source,
                     mode       |-> data.mode,
                     message    |-> data.message,
                     stats      |-> data.stats,
                     operations |-> data.ops]]

NotParsed == [threw |-> FALSE, value |-> NoManifest]

(***************************************************************************)
(* utils/filters.ts                                                        *)
(*                                                                         *)
(* picomatch with its default options, for the pattern syntax the program  *)
(* and the model use: literal characters, "*" inside a segment and "**" as *)
(* a whole segment.  "*" matches any run of characters of one segment,     *)
(* "**" any run of whole segments, and neither matches a segment that      *)
(* starts with "." unless the pattern spells the dot.                      *)
(***************************************************************************)
STAR == "*"
GLOBSTAR == << STAR, STAR >>

RECURSIVE WildMatch(_, _)
WildMatch(p, s) ==
    IF p = << >> THEN s = << >>
    ELSE IF Head(p) = STAR
         THEN \E k \in 0..Len(s) : WildMatch(Tail(p), SubSeq(s, k + 1, Len(s)))
         ELSE s # << >> /\ Head(s) = Head(p) /\ WildMatch(Tail(p), Tail(s))

segmentMatches(p, s) ==
    /\ s[1] = DOT => p[1] = DOT
    /\ WildMatch(p, s)

RECURSIVE globMatches(_, _)
globMatches(psegs, segs) ==
    IF psegs = << >> THEN segs = << >>
    ELSE IF Head(psegs) = GLOBSTAR
         THEN \/ globMatches(Tail(psegs), segs)
              \/ /\ segs # << >>
                 /\ Head(segs)[1] # DOT
                 /\ globMatches(psegs, Tail(segs))
         ELSE /\ segs # << >>
              /\ segmentMatches(Head(psegs), Head(segs))
              /\ globMatches(Tail(psegs), Tail(segs))

(* picomatch(pattern)(str) *)
isMatch(pattern, str) == globMatches(Segments(pattern), Segments(str))

(* picomatch(patterns)(str) for a list of patterns: some pattern matches *)
picomatch(patterns, str) == \E i \in 1..Len(patterns) : isMatch(patterns[i], str)

DEFAULT_EXCLUDES ==
    << << "n", "o", "d", "e", "_", "m", "o", "d", "u", "l", "e", "s", "/", "*", "*" >>,
       << ".", "g", "i", "t", "/", "*", "*" >>,
       << "d", "i", "s", "t", "/", "*", "*" >>,
       << "b", "u", "i", "l", "d", "/", "*", "*" >>,
       << ".", "n", "e", "x", "t", "/", "*", "*" >>,
       << ".", "n", "u", "x", "t", "/", "*", "*" >>,
       << "c", "o", "v", "e", "r", "a", "g", "e", "/", "*", "*" >>,
       << ".", "n", "y", "c", "_", "o", "u", "t", "p", "u", "t", "/", "*", "*" >>,
       << "*", ".", "l", "o", "g" >>,
       << ".", "D", "S", "_", "S", "t", "o", "r", "e" >>,
       << "T", "h", "u", "m", "b", "s", ".", "d", "b" >>,
       << "p", "a", "c", "k", "a", "g", "e", "-", "l", "o", "c", "k", ".", "j", "s", "o", "n" >>,
       << "y", "a", "r", "n", ".", "l", "o", "c", "k" >>,
       << "p", "n", "p", "m", "-", "l", "o", "c", "k", ".", "y", "a", "m", "l" >>,
       << "b", "u", "n", ".", "l", "o", "c", "k", "b" >>,
       << ".", "e", "n", "v" >>,
       << ".", "e", "n", "v", ".", "*" >>,
       << "*", ".", "z", "i", "p" >>,
       << ".", "s", "y", "n", "c", "-", "b", "a", "c", "k", "u", "p", "/", "*", "*" >>,
       << ".", "s", "y", "n", "c", "-", "h", "i", "s", "t", "o", "r", "y", "/", "*", "*" >> >>

createFileFilterM(include, exclude, filePath) ==
    LET excludePatterns == DEFAULT_EXCLUDES \o exclude IN
    IF Len(include) # 0 /\ picomatch(include, filePath) THEN TRUE
    ELSE IF picomatch(excludePatterns, filePath) THEN FALSE
    ELSE Len(include) = 0

(* createFileFilter(include, exclude)(filePath); an include that is not    *)
(* given and an empty include both make `include?.length` falsy, and an    *)
(* exclude that is not given counts as the empty list                      *)
createFileFilter(include, exclude, filePath) ==
    LET excludePatterns == DEFAULT_EXCLUDES \o exclude
        hasIncludeMatcher == Len(include) # 0
    IN  IF picomatch(excludePatterns, filePath) THEN FALSE
        ELSE IF hasIncludeMatcher THEN picomatch(include, filePath)
        ELSE TRUE

(* files.filter(filter) *)
RECURSIVE filterFiles(_, _, _)
filterFiles(files, include, exclude) ==
    IF files = << >> THEN << >>
    ELSE (IF createFileFilter(include, exclude, Head(files)) THEN << Head(files) >> ELSE << >>)
            \o filterFiles(Tail(files), include, exclude)

(***************************************************************************)
(* State.                                                                  *)
(***************************************************************************)
VARIABLES
    pWd, pBase, pRel, pResult, ppc,     \* a call of resolveSafePath
    sIn, sOut, spc,                     \* a call of sortOperationsForApply
    dStatus,        \* git.status() of the exported repository
    dSubmodules,    \* getSubmodules()
    dFiles,         \* the regular files of the repository, path -> content
    dChanges, dpc,  \* a call of detectChanges
    mChanges,       \* the DetectedChange list handed to createManifest
    mMeta,          \* createManifest's other arguments and the time of the call
    mManifest, mpc, \* a call of createManifest
    mJson,          \* the text serializeManifest made of the manifest
    mParsed,        \* what parseManifest made of the text
    fFiles, fInclude, fExclude,     \* the arguments of a call of filterFiles
    fOut, fpc,                      \* and what it returned
    gTracked,       \* the paths in the index of the exported repository
    gUnmerged,      \* those of them with an unresolved merge conflict
    gOptions,       \* ExportOptions: include, exclude, message (mode is "full")
    gSource, gAll,  \* getSourceInfo() and getAllFiles() of the running export
    gpc, gRuns,     \* position inside executeExport, number of exports started
    gManifests,     \* the manifests the exports have written, in order
    hExists,        \* whether the history file exists
    hSince,         \* addHistoryEntry calls since the file last did not exist (bookkeeping)
    keepCount,      \* the argument of a call of cleanOldBackups
    removed, kpc,   \* what the call returned, and its position
    peer,           \* a second import run on the same target: its position and locals
    archive,        \* the archive file: its manifest and payload entries
    opts,           \* ImportOptions: dryRun, force, noBackup
    isRepo,         \* whether the target directory is a git repository
    tStatus,        \* git.status() of the target: its lists modified, staged, not_added
    fs, dirs,       \* the file system
    clock,          \* the wall clock, in ticks
    history,        \* .sync-history/history.json, newest first
    runs,           \* number of the import run
    pc,             \* position of the run inside executeImport
    operations,     \* manifest.operations of the in-memory manifest
    conflicts, ci,  \* detected conflicts and the one being prompted
    resolutions,    \* Map conflict.path -> resolution
    answers,        \* the operator's answer to each conflict, in order (bookkeeping)
    backupPath, bi, \* this run's backup directory and createBackup's loop index
    sortedOps, ai,  \* the apply loop
    applied, errors,
    listed,         \* the operations a dry run has listed, in the order listed
    pre,            \* the files at the start of the run (bookkeeping)
    exitCode

pathVars == << pWd, pBase, pRel, pResult, ppc >>
sortVars == << sIn, sOut, spc >>
detectVars == << dStatus, dSubmodules, dFiles, dChanges, dpc >>
envVars  == << archive, opts, isRepo, tStatus >>
manifestVars == << mChanges, mMeta, mManifest, mpc, mJson, mParsed >>
filterVars == << fFiles, fInclude, fExclude, fOut, fpc >>
snapshotVars == << gTracked, gUnmerged, gOptions, gSource, gAll, gpc, gRuns, gManifests >>
historyVars == << hExists, hSince >>
cleanVars == << keepCount, removed, kpc >>
peerVars == << peer >>
lateVars == << cleanVars, peerVars >>
exportVars == << filterVars, snapshotVars, historyVars, lateVars >>
diskVars == << fs, dirs, clock, history >>
runVars  == << runs, pc, operations, conflicts, ci, resolutions, answers,
               backupPath, bi, sortedOps, ai, applied, errors, listed, pre, exitCode >>

vars == << pathVars, sortVars, detectVars, envVars, exportVars, manifestVars, diskVars, runVars >>

(***************************************************************************)
(* Inputs of the import model.                                             *)
(***************************************************************************)
MaxOps == 2
MaxRuns == 2
MaxElapse == 2

TARGET == << SEP, "t" >>

PA == << "a" >>
PB == << "b" >>
PX == << ".", ".", "/", "x" >>      \* "../x": a path that leaves the target

NONE == << >>

Payload(entryName) == << "new:" >> \o entryName
Old(path) == << "old:" >> \o path

Op(type, path, from) ==
    [type |-> type, path |-> path, from |-> from,
     hash |-> IF type = "delete" THEN NONE
              ELSE hashBuffer(Payload(getArchiveFilePath(path)))]

OpShapes ==
    { Op("add", q, NONE) : q \in { PA, PB, PX } }
        \cup { Op("modify", q, NONE) : q \in { PA, PX } }
        \cup { Op("delete", q, NONE) : q \in { PA, PB, PX } }
        \cup { Op("rename", PB, PA), Op("rename", PA, PB),
               Op("rename", PB, PX), Op("rename", PX, PA) }

RECURSIVE SeqsUpTo(_, _)
SeqsUpTo(S, n) ==
    IF n = 0 THEN { << >> }
    ELSE LET shorter == SeqsUpTo(S, n - 1) IN
         shorter \cup { Append(q, x) : q \in { r \in shorter : Len(r) = n - 1 }, x \in S }

(* parseManifest numbers nothing; `id` is the position in the manifest,    *)
(* carried along as bookkeeping of the model                               *)
WithIds(shapes) ==
    [i \in 1..Len(shapes) |->
        [type |-> shapes[i].type, path |-> shapes[i].path, from |-> shapes[i].from,
         hash |-> shapes[i].hash, id |-> i]]

PayloadNames(ops) ==
    { getArchiveFilePath(ops[i].path) : i \in { j \in 1..Len(ops) : ops[j].type # "delete" } }

EmptyFn == [q \in { } |-> NONE]

ArchiveKinds == { "ok", "missing", "nomanifest", "noversion", "noops", "opsobject" }

(* the archive file of each kind, with the given operations and payload *)
Archive(kind, ops, entries) ==
    [exists   |-> kind # "missing",
     manifest |-> kind \notin { "missing", "nomanifest" },
     version  |-> IF kind \in { "missing", "nomanifest", "noversion" }
                  THEN NO_VERSION ELSE MANIFEST_VERSION,
     opsField |-> CASE kind \in { "missing", "nomanifest", "noops" } -> "absent"
                    [] kind = "opsobject" -> "object"
                    [] OTHER -> "array",
     ops      |-> IF kind \in { "ok", "noversion" } THEN ops ELSE << >>,
     entries  |-> IF kind \in { "missing" } THEN EmptyFn ELSE entries]

TargetStatus(m, s, n) == [modified |-> m, staged |-> s, not_added |-> n]

PathIdle ==
    /\ pWd = << SEP >>
    /\ pBase = << >>
    /\ pRel = << >>
    /\ pResult = [ok |-> TRUE, path |-> << SEP >>]
    /\ ppc = "idle"

SortIdle ==
    /\ sIn = << >>
    /\ sOut = << >>
    /\ spc = "idle"

FilterIdle ==
    /\ fFiles = << >>
    /\ fInclude = << >>
    /\ fExclude = << >>
    /\ fOut = << >>
    /\ fpc = "idle"

SnapshotIdle ==
    /\ gTracked = { }
    /\ gUnmerged = { }
    /\ gOptions = [include |-> << >>, exclude |-> << >>, message |-> NO_MESSAGE]
    /\ gSource = NoSource
    /\ gAll = << >>
    /\ gpc = "idle"
    /\ gRuns = 0
    /\ gManifests = << >>

HistoryIdle ==
    /\ hExists = FALSE
    /\ hSince = 0

CleanIdle ==
    /\ keepCount = 0
    /\ removed = -1
    /\ kpc = "idle"

NoPeer ==
    [pc |-> "idle", operations |-> << >>, conflicts |-> << >>, backupPath |-> NONE,
     bi |-> 0, sortedOps |-> << >>, ai |-> 0, applied |-> 0, errors |-> << >>,
     exitCode |-> -1]

PeerIdle == peer = NoPeer

LateIdle == CleanIdle /\ PeerIdle

ExportIdle ==
    /\ FilterIdle
    /\ SnapshotIdle
    /\ HistoryIdle
    /\ LateIdle

RunIdle ==
    /\ operations = << >>
    /\ conflicts = << >>
    /\ ci = 0
    /\ resolutions = EmptyFn
    /\ answers = << >>
    /\ backupPath = NONE
    /\ bi = 0
    /\ sortedOps = << >>
    /\ ai = 0
    /\ applied = 0
    /\ errors = << >>
    /\ listed = << >>
    /\ pre = EmptyFn
    /\ exitCode = -1

EmptyStatus ==
    [renamed |-> << >>, created |-> << >>, modified |-> << >>, staged |-> << >>,
     deleted |-> << >>, not_added |-> << >>]

NoMeta == [source |-> NoSource, mode |-> "changes", message |-> NO_MESSAGE, now |-> 0]

ManifestIdle ==
    /\ mChanges = << >>
    /\ mMeta = NoMeta
    /\ mManifest = NoManifest
    /\ mpc = "idle"
    /\ mJson = << >>
    /\ mParsed = NotParsed

DetectIdle ==
    /\ ManifestIdle
    /\ dStatus = EmptyStatus
    /\ dSubmodules = { }
    /\ dFiles = EmptyFn
    /\ dChanges = << >>
    /\ dpc = "idle"

ImportIdle ==
    /\ archive = Archive("ok", << >>, EmptyFn)
    /\ opts = [dryRun |-> FALSE, force |-> FALSE, noBackup |-> FALSE]
    /\ isRepo = TRUE
    /\ tStatus = TargetStatus(<< >>, << >>, << >>)
    /\ fs = EmptyFn
    /\ dirs = { }
    /\ clock = 0
    /\ history = << >>
    /\ runs = 0
    /\ pc = "idle"
    /\ RunIdle

(***************************************************************************)
(* Specification Spec: import runs of one archive into the target.         *)
(***************************************************************************)
Init ==
    /\ PathIdle
    /\ SortIdle
    /\ ExportIdle
    /\ DetectIdle
    /\ \E shapes \in SeqsUpTo(OpShapes, MaxOps) :
         \E names \in SUBSET PayloadNames(shapes), kind \in ArchiveKinds :
            /\ kind # "ok" => (Len(shapes) <= 1 /\ names = PayloadNames(shapes))
            /\ kind \in { "missing", "nomanifest", "noops", "opsobject" } => shapes = << >>
            /\ archive = Archive(kind, WithIds(shapes), [n \in names |-> Payload(n)])
    /\ opts \in [dryRun : BOOLEAN, force : BOOLEAN, noBackup : BOOLEAN]
    /\ isRepo \in BOOLEAN
    /\ tStatus \in { TargetStatus(m, << >>, << >>) : m \in { << >>, << PA >> } }
    /\ \E present \in SUBSET { PA, PB } :
         fs = [q \in { join(TARGET, r) : r \in present \cup { PX } } |-> Old(q)]
    /\ dirs = { }
    /\ clock = 0
    /\ history = << >>
    /\ runs = 1
    /\ pc = "start"
    /\ RunIdle

(***************************************************************************)
(* ui/tree.ts buildTree, called by displayFileTree at import.ts:55 on the  *)
(* manifest's operations: file.path.split('/') throws a TypeError when an  *)
(* operation has no `path`. NO_PATH stands for the missing member; no path *)
(* string equals it.                                                       *)
(***************************************************************************)
NO_PATH == << "undefined" >>

buildTreeThrows(files) == \E i \in 1..Len(files) : files[i].path = NO_PATH

isDryRunM(o) == FALSE

isDryRun(o) == o.dryRun

(* lines 30-70: the archive is read, the manifest parsed, its operations   *)
(* displayed as a tree, the target set; a missing archive, a missing       *)
(* manifest.json, a manifest that fails validation or an operation that    *)
(* buildTree cannot split throws into the catch of executeImport (lines    *)
(* 211-215)                                                                *)
Load ==
    /\ pc = "start"
    /\ pre' = fs
    /\ IF LoadThrows(archive) \/ buildTreeThrows(archive.ops)
       THEN /\ pc' = "failed"
            /\ exitCode' = 1
            /\ UNCHANGED operations
       ELSE /\ operations' = archive.ops
            /\ pc' = IF isDryRun(opts) THEN "dryrun" ELSE "detect"
            /\ UNCHANGED exitCode
    /\ UNCHANGED << pathVars, sortVars, detectVars, envVars, exportVars, manifestVars, listed, diskVars, runs, conflicts, ci,
                    resolutions, answers, backupPath, bi, sortedOps, ai, applied,
                    errors >>

(* lines 72-98: one line is logged per operation of manifest.operations,   *)
(* in the order of the manifest, and the command returns                   *)
DryRun ==
    /\ pc = "dryrun"
    /\ listed' = operations
    /\ pc' = "done"
    /\ exitCode' = 0
    /\ UNCHANGED << pathVars, sortVars, detectVars, envVars, exportVars, manifestVars, diskVars, runs, operations, conflicts,
                    ci, resolutions, answers, backupPath, bi, sortedOps, ai, applied,
                    errors, pre >>

(* lines 100-105; getStatus() rejects outside a git repository, hashFile   *)
(* rejects on a directory, and the rejection reaches the catch of          *)
(* executeImport                                                           *)
DetectConflicts ==
    /\ pc = "detect"
    /\ IF ~isRepo \/ detectConflictsThrows(operations, TARGET, fs, dirs)
       THEN /\ pc' = "failed"
            /\ exitCode' = 1
            /\ UNCHANGED << conflicts, ci >>
       ELSE /\ conflicts' = detectConflicts(operations, TARGET, fs, dirs, tStatus)
            /\ ci' = 1
            /\ pc' = IF conflicts' = << >> THEN "confirm" ELSE "resolve"
            /\ UNCHANGED exitCode
    /\ UNCHANGED << pathVars, sortVars, detectVars, envVars, exportVars, manifestVars, listed, diskVars, runs, operations,
                    resolutions, answers, backupPath, bi, sortedOps, ai, applied,
                    errors, pre >>

MapSet(m, k, v) == [q \in (DOMAIN m) \cup { k } |-> IF q = k THEN v ELSE m[q]]

resolutionKeyM(op) == IF op.type = "rename" /\ op.from # NONE THEN op.from ELSE op.path

(* the key under which the filter looks an operation up *)
resolutionKey(op) == op.path

FilterSkippedM(ops, res) ==
    SelectSeq(ops, LAMBDA op : resolutionKey(op) \notin DOMAIN res)

(* lines 131-134 *)
FilterSkipped(ops, res) ==
    SelectSeq(ops, LAMBDA op :
        LET k == resolutionKey(op) IN
        ~(k \in DOMAIN res /\ res[k] \in { "skip", "keep" }))

(* lines 113-122: one prompt; after the last one the skipped operations    *)
(* are filtered out (lines 130-134)                                        *)
Prompt ==
    /\ pc = "resolve"
    /\ ~opts.force
    /\ ci <= Len(conflicts)
    /\ \E r \in { "overwrite", "skip", "keep" } :
         /\ resolutions' = MapSet(resolutions, conflicts[ci].path, r)
         /\ answers' = Append(answers, r)
    /\ ci' = ci + 1
    /\ IF ci = Len(conflicts)
       THEN /\ operations' = FilterSkipped(operations, resolutions')
            /\ pc' = "confirm"
       ELSE UNCHANGED << operations, pc >>
    /\ UNCHANGED << pathVars, sortVars, detectVars, envVars, exportVars, manifestVars, listed, diskVars, runs, conflicts,
                    backupPath, bi, sortedOps, ai, applied, errors, pre, exitCode >>

(* lines 123-134: force mode *)
ForceOverwrite ==
    /\ pc = "resolve"
    /\ opts.force
    /\ resolutions' = [q \in { conflicts[i].path : i \in 1..Len(conflicts) } |-> "overwrite"]
    /\ answers' = [i \in 1..Len(conflicts) |-> "overwrite"]
    /\ ci' = Len(conflicts) + 1
    /\ operations' = FilterSkipped(operations, resolutions')
    /\ pc' = "confirm"
    /\ UNCHANGED << pathVars, sortVars, detectVars, envVars, exportVars, manifestVars, listed, diskVars, runs, conflicts,
                    backupPath, bi, sortedOps, ai, applied, errors, pre, exitCode >>

(* lines 139-153 *)
Confirm ==
    /\ pc = "confirm"
    /\ \E confirmed \in BOOLEAN :
         /\ opts.force => confirmed
         /\ IF confirmed
            THEN /\ pc' = IF opts.noBackup THEN "sort" ELSE "backup_begin"
                 /\ UNCHANGED exitCode
            ELSE /\ pc' = "done"
                 /\ exitCode' = 0
    /\ UNCHANGED << pathVars, sortVars, detectVars, envVars, exportVars, manifestVars, listed, diskVars, runs, operations, conflicts,
                    ci, resolutions, answers, backupPath, bi, sortedOps, ai, applied,
                    errors, pre >>

(* backup.ts lines 16-19 *)
BackupBegin ==
    /\ pc = "backup_begin"
    /\ backupPath' = BackupPathAt(TARGET, clock)
    /\ dirs' = dirs \cup { backupPath' }
    /\ bi' = 1
    /\ pc' = "backup"
    /\ UNCHANGED << pathVars, sortVars, detectVars, envVars, exportVars, manifestVars, listed, fs, clock, history, runs, operations,
                    conflicts, ci, resolutions, answers, sortedOps, ai, applied,
                    errors, pre, exitCode >>

(* backup.ts lines 26-41: one turn of the loop; a thrown error ends the    *)
(* import in the catch of executeImport                                    *)
BackupStep ==
    /\ pc = "backup"
    /\ ~createBackupReturns(bi, Len(filesToBackup(operations)))
    /\ LET r == BackupOne(filesToBackup(operations)[bi], TARGET, backupPath, fs, dirs)
       IN  IF r.ok
           THEN /\ fs' = r.fs
                /\ bi' = bi + 1
                /\ UNCHANGED << pc, exitCode >>
           ELSE /\ pc' = "failed"
                /\ exitCode' = 1
                /\ UNCHANGED << fs, bi >>
    /\ UNCHANGED << pathVars, sortVars, detectVars, envVars, exportVars, manifestVars, listed, dirs, clock, history, runs, operations,
                    conflicts, ci, resolutions, answers, backupPath, sortedOps, ai,
                    applied, errors, pre >>

(* backup.ts line 43, import.ts line 156 *)
BackupReturn ==
    /\ pc = "backup"
    /\ createBackupReturns(bi, Len(filesToBackup(operations)))
    /\ pc' = "sort"
    /\ UNCHANGED << pathVars, sortVars, detectVars, envVars, exportVars, manifestVars, listed, diskVars, runs, operations, conflicts,
                    ci, resolutions, answers, backupPath, bi, sortedOps, ai, applied,
                    errors, pre, exitCode >>

(* lines 161-168 *)
BeginApply ==
    /\ pc = "sort"
    /\ sortedOps' = sortOperationsForApply(operations)
    /\ ai' = 1
    /\ applied' = 0
    /\ errors' = << >>
    /\ pc' = "apply"
    /\ UNCHANGED << pathVars, sortVars, detectVars, envVars, exportVars, manifestVars, listed, diskVars, runs, operations, conflicts,
                    ci, resolutions, answers, backupPath, bi, pre, exitCode >>

ContinueAfterErrorM(i, n) == n + 1

ContinueAfterErrorSkipM(i, n) == i + 2

(* the index the loop goes on with after a failed operation *)
ContinueAfterError(i, n) == i + 1

(* lines 170-181: one turn of the apply loop *)
ApplyStep ==
    /\ pc = "apply"
    /\ ai <= Len(sortedOps)
    /\ LET op == sortedOps[ai]
           r  == applyOperation(archive.entries, op, TARGET, fs, dirs)
       IN  /\ fs' = r.fs
           /\ IF r.ok
              THEN /\ applied' = applied + 1
                   /\ ai' = ai + 1
                   /\ UNCHANGED errors
              ELSE /\ errors' = Append(errors, [op |-> op, error |-> r.error])
                   /\ ai' = ContinueAfterError(ai, Len(sortedOps))
                   /\ UNCHANGED applied
    /\ UNCHANGED << pathVars, sortVars, detectVars, envVars, exportVars, manifestVars, listed, dirs, clock, history, runs, pc,
                    operations, conflicts, ci, resolutions, answers, backupPath, bi,
                    sortedOps, pre, exitCode >>

(* lines 183-210: the summary and the history entry *)
Finish ==
    /\ pc = "apply"
    /\ ai > Len(sortedOps)
    /\ history' = addHistoryEntry(history, [timestamp |-> clock, type |-> "import"])
    /\ pc' = "done"
    /\ exitCode' = 0
    /\ UNCHANGED << pathVars, sortVars, detectVars, envVars, exportVars, manifestVars, listed, fs, dirs, clock, runs, operations,
                    conflicts, ci, resolutions, answers, backupPath, bi, sortedOps, ai,
                    applied, errors, pre >>

(* the operator runs the same import again, some ticks later *)
Rerun ==
    /\ pc \in { "done", "failed" }
    /\ runs < MaxRuns
    /\ runs' = runs + 1
    /\ \E e \in 1..MaxElapse : clock' = clock + e
    /\ pc' = "start"
    /\ operations' = << >>
    /\ conflicts' = << >>
    /\ ci' = 0
    /\ resolutions' = EmptyFn
    /\ answers' = << >>
    /\ backupPath' = NONE
    /\ bi' = 0
    /\ sortedOps' = << >>
    /\ ai' = 0
    /\ applied' = 0
    /\ errors' = << >>
    /\ listed' = << >>
    /\ pre' = EmptyFn
    /\ exitCode' = -1
    /\ UNCHANGED << pathVars, sortVars, detectVars, envVars, exportVars, manifestVars, fs, dirs, history >>

Next ==
    \/ Load
    \/ DryRun
    \/ DetectConflicts
    \/ Prompt
    \/ ForceOverwrite
    \/ Confirm
    \/ BackupBegin
    \/ BackupStep
    \/ BackupReturn
    \/ BeginApply
    \/ ApplyStep
    \/ Finish

Spec == Init /\ [][Next]_vars

(***************************************************************************)
(* Specification SpecRuns: the same forced import run again and again      *)
(* (`import <archive> --force`, with or without --no-backup).              *)
(***************************************************************************)
InitRuns ==
    /\ Init
    /\ opts.force
    /\ ~opts.dryRun
    /\ isRepo
    /\ ~LoadThrows(archive)

NextRuns ==
    \/ Load
    \/ DetectConflicts
    \/ ForceOverwrite
    \/ Confirm
    \/ BackupBegin
    \/ BackupStep
    \/ BackupReturn
    \/ BeginApply
    \/ ApplyStep
    \/ Finish
    \/ Rerun

SpecRuns == InitRuns /\ [][NextRuns]_vars

(***************************************************************************)
(* Specification SpecConflicts: detectConflicts on bounded operation       *)
(* lists, target trees and status snapshots.                               *)
(***************************************************************************)
MaxConflictOps == 2

(* an add whose manifest entry declares no hash *)
AddWithoutHash(path) == [type |-> "add", path |-> path, from |-> NONE, hash |-> NONE]

ConflictShapes ==
    { Op(t, q, NONE) : t \in { "add", "modify", "delete" }, q \in { PA, PB } }
        \cup { AddWithoutHash(PA) }
        \cup { Op("rename", PA, PB), Op("rename", PB, PA) }

(* what the target may hold at a path: nothing, a file with content of its *)
(* own, or a file with the content the archive carries for that path       *)
ContentsAt(path) == { Old(join(TARGET, path)), Payload(getArchiveFilePath(path)) }

TargetTrees ==
    { [f |-> EmptyFn, d |-> { }] }
        \cup { [f |-> [q \in { join(TARGET, PA) } |-> ca], d |-> { }] : ca \in ContentsAt(PA) }
        \cup { [f |-> [q \in { join(TARGET, PB) } |-> cb], d |-> { }] : cb \in ContentsAt(PB) }
        \cup { [f |-> [q \in { join(TARGET, PA), join(TARGET, PB) } |->
                        IF q = join(TARGET, PA) THEN ca ELSE Old(q)], d |-> { }] :
                 ca \in ContentsAt(PA) }
        \cup { [f |-> EmptyFn, d |-> { join(TARGET, PB) }] }
        \cup { [f |-> [q \in { join(TARGET, PA) } |-> ca], d |-> { join(TARGET, PB) }] :
                 ca \in ContentsAt(PA) }

StatusLists == { << >>, << PA >>, << PB >> }

InitConflicts ==
    /\ PathIdle
    /\ SortIdle
    /\ ExportIdle
    /\ DetectIdle
    /\ archive = Archive("ok", << >>, EmptyFn)
    /\ opts = [dryRun |-> FALSE, force |-> FALSE, noBackup |-> FALSE]
    /\ isRepo \in BOOLEAN
    /\ tStatus \in { TargetStatus(m, s, n) : m \in StatusLists, s \in { << >>, << PA >> },
                                              n \in { << >>, << PA >> } }
    /\ \E tree \in TargetTrees : fs = tree.f /\ dirs = tree.d
    /\ clock = 0
    /\ history = << >>
    /\ runs = 1
    /\ pc = "detect"
    /\ \E shapes \in SeqsUpTo(ConflictShapes, MaxConflictOps) : operations = WithIds(shapes)
    /\ conflicts = << >>
    /\ ci = 0
    /\ resolutions = EmptyFn
    /\ answers = << >>
    /\ backupPath = NONE
    /\ bi = 0
    /\ sortedOps = << >>
    /\ ai = 0
    /\ applied = 0
    /\ errors = << >>
    /\ listed = << >>
    /\ pre = EmptyFn
    /\ exitCode = -1

NextConflicts == DetectConflicts

SpecConflicts == InitConflicts /\ [][NextConflicts]_vars

(***************************************************************************)
(* Specification SpecSort: sortOperationsForApply on bounded lists.        *)
(***************************************************************************)
MaxSortLen == 3

SortShapes ==
    { Op(t, q, NONE) : t \in { "add", "modify", "delete" }, q \in { PA, PB } }
        \cup { Op("rename", PA, PB), Op("rename", PB, PA) }

InitSort ==
    /\ PathIdle
    /\ ExportIdle
    /\ DetectIdle
    /\ ImportIdle
    /\ \E shapes \in SeqsUpTo(SortShapes, MaxSortLen) : sIn = WithIds(shapes)
    /\ sOut = << >>
    /\ spc = "call"

(* diff.ts line 145: the copy [...operations] is sorted and returned *)
SortOperations ==
    /\ spc = "call"
    /\ sOut' = sortOperationsForApply(sIn)
    /\ spc' = "returned"
    /\ UNCHANGED << sIn, pathVars, detectVars, envVars, exportVars, manifestVars, diskVars, runVars >>

NextSort == SortOperations
SpecSort == InitSort /\ [][NextSort]_vars

(***************************************************************************)
(* Specification SpecDetect: detectChanges on bounded status snapshots.    *)
(* The snapshot is built entry by entry, any path in any of the status     *)
(* lists, then detectChanges is called on it.                              *)
(***************************************************************************)
MaxStatusEntries == 3

DA == << "d", "/", "a" >>
DA_BSL == << "d", BSL, "a" >>

RawPaths == { PA, DA, DA_BSL }
RepoPaths == { PA, DA }

StatusFields == { "created", "modified", "staged", "deleted", "not_added" }

StatusSize(st) ==
    Len(st.renamed) + Len(st.created) + Len(st.modified) + Len(st.staged)
        + Len(st.deleted) + Len(st.not_added)

InitDetect ==
    /\ PathIdle
    /\ SortIdle
    /\ ExportIdle
    /\ ImportIdle
    /\ ManifestIdle
    /\ dStatus = EmptyStatus
    /\ dSubmodules \in SUBSET { DA }
    /\ \E present \in SUBSET RepoPaths : dFiles = [q \in present |-> Old(q)]
    /\ dChanges = << >>
    /\ dpc = "status"

(* the working tree gains one more entry in its status *)
StatusEntry ==
    /\ dpc = "status"
    /\ StatusSize(dStatus) < MaxStatusEntries
    /\ \/ \E field \in StatusFields, raw \in RawPaths :
            dStatus' = [dStatus EXCEPT ![field] = Append(@, raw)]
       \/ \E raw \in RawPaths :
            dStatus' = [dStatus EXCEPT !.renamed = Append(@, [from |-> PB, to |-> raw])]
    /\ UNCHANGED << dSubmodules, dFiles, dChanges, dpc,
                    pathVars, sortVars, envVars, exportVars, manifestVars, diskVars, runVars >>

(* git.ts lines 110-178 *)
DetectChanges ==
    /\ dpc = "status"
    /\ dChanges' = detectChanges(dStatus, dSubmodules, dFiles)
    /\ dpc' = "detected"
    /\ UNCHANGED << dStatus, dSubmodules, dFiles,
                    pathVars, sortVars, envVars, exportVars, manifestVars, diskVars, runVars >>

NextDetect ==
    \/ StatusEntry
    \/ DetectChanges

SpecDetect == InitDetect /\ [][NextDetect]_vars

(***************************************************************************)
(* Specification SpecManifest: createManifest on bounded lists of          *)
(* DetectedChange (type, path, from?, size, hash?).                        *)
(***************************************************************************)
MaxChanges == 2

Sizes == { 0, 2 }

(* every change carries the fields its type needs (a rename its `from`, a  *)
(* non-delete its hash); the optional fields are set or not                *)
ChangeShapes ==
    { c \in { [type |-> t, path |-> q, from |-> fr, size |-> z, hash |-> h] :
                t \in { "add", "modify", "delete", "rename" },
                q \in { PA },
                fr \in { NO_FROM, PB },
                z \in Sizes,
                h \in { NO_HASH, hashBuffer(Old(PA)) } } :
        /\ c.type = "rename" => c.from # NO_FROM
        /\ c.type # "delete" => c.hash # NO_HASH }

Sources ==
    { [repo |-> << "r" >>, branch |-> << "m" >>, commit |-> << "c" >>, dirty |-> d] :
        d \in BOOLEAN }

(* no message, the empty message and a message *)
Messages == { NO_MESSAGE, << >>, << "m" >> }

Metas ==
    { [source |-> src, mode |-> md, message |-> msg, now |-> 0] :
        src \in Sources, md \in { "changes", "full" }, msg \in Messages }

InitManifest ==
    /\ PathIdle
    /\ SortIdle
    /\ ExportIdle
    /\ ImportIdle
    /\ dStatus = EmptyStatus
    /\ dSubmodules = { }
    /\ dFiles = EmptyFn
    /\ dChanges = << >>
    /\ dpc = "idle"
    /\ mChanges \in SeqsUpTo(ChangeShapes, MaxChanges)
    /\ mMeta \in Metas
    /\ mManifest = NoManifest
    /\ mpc = "changes"
    /\ mJson = << >>
    /\ mParsed = NotParsed

(* manifest.ts lines 8-44 *)
CreateManifest ==
    /\ mpc = "changes"
    /\ mManifest' = createManifest(mChanges, mMeta.source, mMeta.mode, mMeta.message, mMeta.now)
    /\ mpc' = "built"
    /\ UNCHANGED << mChanges, mMeta, mJson, mParsed,
                    pathVars, sortVars, detectVars, envVars, exportVars, diskVars, runVars >>

(* manifest.ts lines 96-98 *)
SerializeManifest ==
    /\ mpc = "built"
    /\ mJson' = serializeManifest(mManifest)
    /\ mpc' = "written"
    /\ UNCHANGED << mChanges, mMeta, mManifest, mParsed,
                    pathVars, sortVars, detectVars, envVars, exportVars, diskVars, runVars >>

(* manifest.ts lines 82-91 *)
ParseManifest ==
    /\ mpc = "written"
    /\ mParsed' = parseManifest(mJson)
    /\ mpc' = "parsed"
    /\ UNCHANGED << mChanges, mMeta, mManifest, mJson,
                    pathVars, sortVars, detectVars, envVars, exportVars, diskVars, runVars >>

NextManifest ==
    \/ CreateManifest
    \/ SerializeManifest
    \/ ParseManifest

SpecManifest == InitManifest /\ [][NextManifest]_vars

(***************************************************************************)
(* Specification SpecFilter: filterFiles on bounded lists of paths with    *)
(* bounded include and exclude lists.                                      *)
(***************************************************************************)
MaxFiles == 2
MaxPatterns == 2

A_LOG == << "a", ".", "l", "o", "g" >>
DIST_A == << "d", "i", "s", "t", "/", "a" >>
D_ALL == << "d", "/", "*", "*" >>
ANY == << STAR >>

(* a plain file, a file in a directory, a file matching *.log and a file   *)
(* under dist/                                                             *)
FilterPaths == { PA, DA, A_LOG, DIST_A }

IncludePatterns == { PA, D_ALL, ANY }
ExcludePatterns == { PA, D_ALL }

InitFilter ==
    /\ PathIdle
    /\ LateIdle
    /\ SortIdle
    /\ DetectIdle
    /\ ImportIdle
    /\ SnapshotIdle
    /\ HistoryIdle
    /\ fFiles \in SeqsUpTo(FilterPaths, MaxFiles)
    /\ fInclude \in SeqsUpTo(IncludePatterns, MaxPatterns)
    /\ fExclude \in SeqsUpTo(ExcludePatterns, MaxPatterns)
    /\ fOut = << >>
    /\ fpc = "call"

(* filters.ts lines 148-155 *)
FilterFiles ==
    /\ fpc = "call"
    /\ fOut' = filterFiles(fFiles, fInclude, fExclude)
    /\ fpc' = "done"
    /\ UNCHANGED << fFiles, fInclude, fExclude, snapshotVars, historyVars, lateVars,
                    pathVars, sortVars, detectVars, envVars, manifestVars, diskVars, runVars >>

NextFilter == FilterFiles

SpecFilter == InitFilter /\ [][NextFilter]_vars

(***************************************************************************)
(* Specification SpecSnapshot: executeExport with mode "full" and quick,   *)
(* run up to MaxExports times in the same repository from its root, with   *)
(* nothing else touching the tree.  dFiles holds the repository's regular  *)
(* files by path relative to the root.                                     *)
(***************************************************************************)
MaxExports == 2

SnapshotPaths == { PA, PB, DA }

ZIP == << "zip" >>
HISTORY_JSON == << "history" >>

(* quick exports without a message *)
ExportOptionSets ==
    { [include |-> i, exclude |-> e, message |-> NO_MESSAGE] :
        i \in { << >>, << ANY >> },
        e \in { << >>, << PA >> } }

InitSnapshot ==
    /\ PathIdle
    /\ LateIdle
    /\ SortIdle
    /\ FilterIdle
    /\ HistoryIdle
    /\ ImportIdle
    /\ ManifestIdle
    /\ dStatus = EmptyStatus
    /\ dSubmodules = { }
    /\ \E present \in SUBSET SnapshotPaths : dFiles = [q \in present |-> Old(q)]
    /\ dChanges = << >>
    /\ dpc = "idle"
    /\ gTracked \in SUBSET SnapshotPaths
    /\ gUnmerged \in { u \in SUBSET gTracked : Cardinality(u) <= 1 }
    /\ gOptions \in ExportOptionSets
    /\ gSource = NoSource
    /\ gAll = << >>
    /\ gpc = "idle"
    /\ gRuns = 0
    /\ gManifests = << >>

(* export.ts lines 173-186: the repository is scanned *)
ScanFull ==
    /\ gpc = "idle"
    /\ gRuns < MaxExports
    /\ gRuns' = gRuns + 1
    /\ gSource' = getSourceInfo(gTracked, gUnmerged, dFiles)
    /\ gAll' = getAllFiles(getTrackedFiles(gTracked, gUnmerged),
                           getUntrackedFiles(gTracked, dFiles), dFiles)
    /\ gpc' = "scanned"
    /\ UNCHANGED << gTracked, gUnmerged, gOptions, gManifests, filterVars, historyVars, lateVars,
                    pathVars, sortVars, detectVars, envVars, manifestVars, diskVars, runVars >>

(* export.ts lines 193-305: the filters, the manifest, the archive written *)
(* to join(repoRoot, generateArchiveName(mode)) and the history entry      *)
BuildFull ==
    /\ gpc = "scanned"
    /\ \E filteredAllPaths \in
            { filterFiles([i \in 1..Len(gAll) |-> gAll[i].path],
                          gOptions.include, gOptions.exclude) } :
       \E finalChanges \in
            { SelectSeq(gAll,
                 LAMBDA c : \E i \in 1..Len(filteredAllPaths) : filteredAllPaths[i] = c.path) } :
          LET manifest == createManifest(finalChanges, gSource, "full", gOptions.message, clock)
              outputPath == generateArchiveName("full", clock)
              historyPath == join(HISTORY_DIR, HISTORY_FILE)
          IN  IF Len(finalChanges) = 0
              THEN UNCHANGED << dFiles, history, hExists, hSince, gManifests >>
              ELSE /\ gManifests' = Append(gManifests, manifest)
                   /\ dFiles' = [q \in DOMAIN dFiles \cup { outputPath, historyPath } |->
                                    IF q = outputPath THEN ZIP
                                    ELSE IF q = historyPath THEN HISTORY_JSON
                                    ELSE dFiles[q]]
                   /\ history' = addHistoryEntry(loadHistory(hExists, history),
                                                 [timestamp |-> clock, type |-> "export"])
                   /\ hExists' = TRUE
                   /\ hSince' = hSince + 1
    /\ gpc' = "idle"
    /\ UNCHANGED << gTracked, gUnmerged, gOptions, gSource, gAll, gRuns, filterVars, lateVars,
                    dStatus, dSubmodules, dChanges, dpc,
                    pathVars, sortVars, envVars, manifestVars, fs, dirs, clock, runVars >>

(* time passes *)
Elapse ==
    /\ clock < MaxElapse
    /\ clock' = clock + 1
    /\ UNCHANGED << pathVars, sortVars, detectVars, envVars, exportVars, manifestVars,
                    fs, dirs, history, runVars >>

NextSnapshot ==
    \/ ScanFull
    \/ BuildFull
    \/ Elapse

SpecSnapshot == InitSnapshot /\ [][NextSnapshot]_vars

(***************************************************************************)
(* Specification SpecHistory: addHistoryEntry calls and `history --clear`  *)
(* on a history file that starts absent or empty.  Every call reads the    *)
(* clock one tick later than the call before it.                           *)
(***************************************************************************)
MaxAdds == 52

InitHistory ==
    /\ PathIdle
    /\ LateIdle
    /\ SortIdle
    /\ FilterIdle
    /\ SnapshotIdle
    /\ DetectIdle
    /\ ImportIdle
    /\ hExists \in BOOLEAN
    /\ hSince = 0

(* history.ts lines 113-134 *)
AddHistoryEntry ==
    /\ clock < MaxAdds
    /\ clock' = clock + 1
    /\ history' = addHistoryEntry(loadHistory(hExists, history),
                                  [timestamp |-> clock', type |-> "export"])
    /\ hExists' = TRUE
    /\ hSince' = hSince + 1
    /\ UNCHANGED << filterVars, snapshotVars, lateVars,
                    pathVars, sortVars, detectVars, envVars, manifestVars, fs, dirs, runVars >>

(* history.ts lines 30-40, confirmed: the history directory is removed *)
ClearHistory ==
    /\ hExists
    /\ hExists' = FALSE
    /\ history' = << >>
    /\ hSince' = 0
    /\ UNCHANGED << filterVars, snapshotVars, lateVars,
                    pathVars, sortVars, detectVars, envVars, manifestVars, fs, dirs, clock, runVars >>

NextHistory ==
    \/ AddHistoryEntry
    \/ ClearHistory

SpecHistory == InitHistory /\ [][NextHistory]_vars

(***************************************************************************)
(* Specification SpecPath: resolveSafePath on bounded inputs.              *)
(***************************************************************************)
ETC == << "e", "t", "c" >>
PASSWD == << "p", "a", "s", "s", "w", "d" >>
ETC_PASSWD == << ".", ".", "/", ".", ".", "/" >> \o ETC \o << SEP >> \o PASSWD

BaseSegments == { ETC, PASSWD, << "e" >>, DOTDOT }

RECURSIVE SegSeqs(_)
SegSeqs(n) ==
    IF n = 0 THEN { << >> }
    ELSE LET shorter == SegSeqs(n - 1) IN
         shorter \cup { Append(q, g) : q \in { r \in shorter : Len(r) = n - 1 }, g \in BaseSegments }

Bases ==
    { << SEP >> \o JoinSegs(q) : q \in SegSeqs(MaxBaseDepth) }
        \cup { JoinSegs(q) : q \in SegSeqs(MaxBaseDepth) }

Rels == { ETC_PASSWD, << "a" >>, << ".", ".", "/", "x" >>, << SEP >> \o ETC, << >> }

Wds == { << SEP >>, << SEP, "w" >>, << SEP >> \o ETC }

PathInit ==
    /\ pWd \in Wds
    /\ pBase \in Bases
    /\ pRel \in Rels
    /\ pResult = [ok |-> TRUE, path |-> << SEP >>]
    /\ ppc = "call"

ResolveSafePath ==
    /\ ppc = "call"
    /\ pResult' = resolveSafePathFrom(pWd, pBase, pRel)
    /\ ppc' = "returned"
    /\ UNCHANGED << pWd, pBase, pRel, sortVars, detectVars, envVars, exportVars, manifestVars, diskVars, runVars >>

InitPath == PathInit /\ SortIdle /\ ExportIdle /\ DetectIdle /\ ImportIdle
NextPath == ResolveSafePath
SpecPath == InitPath /\ [][NextPath]_vars

(***************************************************************************)
(* Claims.                                                                 *)
(***************************************************************************)
EndsWith(s, t) ==
    /\ Len(t) <= Len(s)
    /\ SubSeq(s, Len(s) - Len(t) + 1, Len(s)) = t

pResolvedBase == resolveFrom(pWd, pBase, << >>)

(* C3 as stated: resolveSafePath(base, "../../etc/passwd") throws the     *)
(* path-traversal error for every base directory.                          *)
C3_Original ==
    (ppc = "returned" /\ pRel = ETC_PASSWD) =>
        (~pResult.ok /\ pResult.error = TRAVERSAL)

(* a base from which "../../etc/passwd" lands inside the base itself *)
BaseHoldsEtcPasswd(b) ==
    \/ b = << SEP >> \o ETC
    \/ EndsWith(b, << SEP >> \o ETC \o << SEP >> \o PASSWD)

(* C3 amended: resolveSafePath(base, "../../etc/passwd") throws the       *)
(* path-traversal error for every base directory except a base that       *)
(* resolves to /etc or ends in /etc/passwd; for those the resolved path   *)
(* lies inside the base and is returned.                                   *)
C3_TraversalRejected ==
    (ppc = "returned" /\ pRel = ETC_PASSWD) =>
        IF BaseHoldsEtcPasswd(pResolvedBase)
        THEN pResult.ok /\ (pResult.path = pResolvedBase
                             \/ StartsWith(pResult.path, pResolvedBase \o << SEP >>))
        ELSE ~pResult.ok /\ pResult.error = TRAVERSAL

C3_Witness ==
    /\ ppc = "returned"
    /\ pRel = ETC_PASSWD
    /\ pBase = << SEP, "e", SEP >> \o PASSWD
    /\ ~pResult.ok

(* C1: the apply phase never writes, removes or renames a path outside    *)
(* the target directory, whatever the manifest and the options: every     *)
(* file outside the target is as it was when the run started.             *)
C1_NoWriteOutsideTarget ==
    pc \in { "apply", "done" } =>
        \A q \in (DOMAIN pre) \cup (DOMAIN fs) :
            ~Under(q, TARGET) => (q \in DOMAIN pre /\ q \in DOMAIN fs /\ fs[q] = pre[q])

(* C2: for any status snapshot, with any overlaps between its sets and    *)
(* any submodule set, the list detectChanges returns has no two entries   *)
(* with the same path.                                                    *)
C2_NoDuplicatePath ==
    dpc = "detected" =>
        \A i, j \in 1..Len(dChanges) : i # j => dChanges[i].path # dChanges[j].path

C2_Witness ==
    /\ dpc = "detected"
    /\ dStatus.created = << DA >>
    /\ dStatus.modified = << DA_BSL >>
    /\ dStatus.deleted = << DA >>
    /\ Len(dChanges) = 1
    /\ dChanges[1].type = "add"
    /\ dChanges[1].path = DA

Priority(type) ==
    CASE type = "delete" -> 0
      [] type = "rename" -> 1
      [] type = "modify" -> 2
      [] type = "add" -> 3

(* C4: sortOperationsForApply returns a permutation of its input ordered  *)
(* by delete < rename < modify < add, operations of equal type in input   *)
(* order, so a delete of P precedes every rename or add onto P; the input *)
(* list is not modified.                                                  *)
C4_SortedStable ==
    spc = "returned" =>
        /\ \A i \in 1..Len(sIn) : sIn[i].id = i
        /\ Len(sOut) = Len(sIn)
        /\ { sOut[k].id : k \in 1..Len(sOut) } = 1..Len(sIn)
        /\ \A k \in 1..Len(sOut) : sOut[k] = sIn[sOut[k].id]
        /\ \A i, j \in 1..Len(sOut) :
             i < j =>
                /\ Priority(sOut[i].type) <= Priority(sOut[j].type)
                /\ sOut[i].type = sOut[j].type => sOut[i].id < sOut[j].id
        /\ \A i, j \in 1..Len(sOut) :
             (/\ sOut[i].type = "delete"
              /\ sOut[j].type \in { "rename", "add" }
              /\ sOut[i].path = sOut[j].path) => i < j

C4_Witness ==
    /\ spc = "returned"
    /\ Len(sIn) = 3
    /\ sIn[1].type = "add" /\ sIn[1].path = PA
    /\ sIn[2].type = "add" /\ sIn[2].path = PB
    /\ sIn[3].type = "delete" /\ sIn[3].path = PA
    /\ sOut[1].id = 3 /\ sOut[2].id = 1 /\ sOut[3].id = 2

ApplyEnded == pc = "done" /\ ai >= 1 /\ ai > Len(sortedOps)

LacksPayload(op) ==
    op.type # "delete" /\ getArchiveFilePath(op.path) \notin DOMAIN archive.entries

Lacking == { i \in 1..Len(sortedOps) : LacksPayload(sortedOps[i]) }

BackupRoot == join(TARGET, BACKUP_DIR)

(* C6: with backup enabled, every file of the target that the apply phase *)
(* overwrites or removes has its pre-import content in this run's backup  *)
(* directory, whatever the type of the operation.                         *)
C6_EveryMutatedFileBackedUp ==
    (/\ ~opts.noBackup
     /\ pc \in { "apply", "done" }
     /\ backupPath # NONE) =>
        \A q \in DOMAIN pre :
            (/\ Under(q, TARGET)
             /\ ~Under(q, BackupRoot)
             /\ (q \notin DOMAIN fs \/ fs[q] # pre[q])) =>
                /\ Rebase(q, TARGET, backupPath) \in DOMAIN fs
                /\ fs[Rebase(q, TARGET, backupPath)] = pre[q]

InsideTarget(path) == Under(normalize(TARGET \o << SEP >> \o path), TARGET)

(* the file createBackup has to save for an operation, or NONE *)
SavedSource(op) ==
    IF op.type \in { "modify", "delete" } THEN op.path
    ELSE IF op.type = "rename" THEN op.from
    ELSE NONE

(* C7: when createBackup has returned, every modify or delete operation   *)
(* whose path exists in the target, and every rename whose `from` exists, *)
(* has that file under the same relative path in the backup directory     *)
(* with its content from before the import; an operation whose source is  *)
(* missing has raised no error and has added no backup entry.             *)
C7_BackupCopies ==
    /\ (pc = "sort" /\ backupPath # NONE) =>
          /\ \A i \in 1..Len(operations) :
               LET src == SavedSource(operations[i]) IN
               (src # NONE /\ join(TARGET, src) \in DOMAIN pre) =>
                  /\ join(backupPath, src) \in DOMAIN fs
                  /\ fs[join(backupPath, src)] = pre[join(TARGET, src)]
          /\ \A q \in DOMAIN fs :
               Under(q, backupPath) =>
                  \/ q \in DOMAIN pre
                  \/ \E i \in 1..Len(operations) :
                        /\ SavedSource(operations[i]) # NONE
                        /\ q = join(backupPath, SavedSource(operations[i]))
                        /\ join(TARGET, SavedSource(operations[i])) \in DOMAIN pre
          /\ \A q \in DOMAIN pre : q \in DOMAIN fs /\ (~Under(q, backupPath) => fs[q] = pre[q])
    /\ (pc = "failed" /\ backupPath # NONE) =>
          \E i \in 1..Len(operations) :
             /\ operations[i].type \in { "modify", "delete", "rename" }
             /\ \/ ~InsideTarget(operations[i].path)
                \/ (operations[i].type = "rename" /\ ~InsideTarget(operations[i].from))

C7_Witness ==
    /\ pc = "sort"
    /\ backupPath # NONE
    /\ Len(operations) = 2
    /\ operations[1].type = "rename"
    /\ join(TARGET, operations[1].from) \in DOMAIN pre
    /\ join(TARGET, operations[1].path) \notin DOMAIN pre
    /\ fs[join(backupPath, operations[1].from)] = pre[join(TARGET, operations[1].from)]
    /\ operations[2].type = "delete"
    /\ join(TARGET, operations[2].path) \notin DOMAIN pre
    /\ join(backupPath, operations[2].path) \notin DOMAIN fs

(* C8: every call of createBackup uses a backup directory that no earlier *)
(* call used, so a later run leaves the files saved by an earlier run as  *)
(* they were.                                                             *)
C8_FreshBackupDir ==
    /\ pc = "backup_begin" => BackupPathAt(TARGET, clock) \notin dirs
    /\ pc \in { "backup", "sort", "apply", "done" } =>
          \A q \in DOMAIN pre :
             Under(q, BackupRoot) => (q \in DOMAIN fs /\ fs[q] = pre[q])

Resolved ==
    /\ pc \in { "confirm", "backup_begin", "backup", "sort", "apply", "done" }
    /\ Len(answers) = Len(conflicts)

(* C9: an operation whose conflict the operator resolved as skip or keep  *)
(* is removed from the operations list before backup and apply and is     *)
(* never applied, whatever the conflict's reason.                         *)
C9_SkippedNeverApplied ==
    Resolved =>
        \A i \in 1..Len(conflicts) :
            answers[i] \in { "skip", "keep" } =>
                /\ \A k \in 1..Len(operations) : operations[k].id # conflicts[i].op
                /\ \A k \in 1..Len(sortedOps) : sortedOps[k].id # conflicts[i].op

(* C10: with dryRun set no step of import changes the disk: no file is    *)
(* created, modified or removed, no backup directory is made and no       *)
(* history entry is written.                                              *)
C10_DryRunChangesNothing ==
    [][opts.dryRun => (fs' = fs /\ dirs' = dirs /\ history' = history)]_vars

C10_Witness ==
    /\ opts.dryRun
    /\ pc = "done"
    /\ exitCode = 0
    /\ Len(operations) = 2
    /\ operations[1].type = "delete"
    /\ join(TARGET, operations[1].path) \in DOMAIN fs
    /\ operations[2].type = "add"
    /\ getArchiveFilePath(operations[2].path) \in DOMAIN archive.entries
    /\ history = << >>
    /\ dirs = { }

(* C11: a dry run performs the conflict detection of a real run on the    *)
(* manifest operations and lists the operations in the order in which a   *)
(* real run attempts them, the order of sortOperationsForApply.           *)
C11_DryRunPreview ==
    (opts.dryRun /\ pc = "done") =>
        /\ listed = sortOperationsForApply(archive.ops)
        /\ isRepo => conflicts = detectConflicts(archive.ops, TARGET, fs, dirs, tStatus)

(* detectConflicts has returned its list *)
ConflictsReturned == pc \in { "confirm", "resolve" }

(* the conflicts raised by the operation at position i of the manifest *)
ConflictsFor(i) == SelectSeq(conflicts, LAMBDA c : c.op = i)

ExistsInTarget(path) == fileExists(fs, dirs, join(TARGET, path))

OpsOfType(type) == { i \in 1..Len(operations) : operations[i].type = type }

(* C12: for an add operation detectConflicts reports an already_exists    *)
(* conflict on its path if and only if the destination exists and the     *)
(* fingerprint of its content differs from the hash the operation         *)
(* declares; with equal hashes (or no declared hash to differ from) it    *)
(* reports no conflict for that operation.                                *)
C12_AddConflict ==
    ConflictsReturned =>
        \A i \in OpsOfType("add") :
            LET op == operations[i]
                lp == join(TARGET, op.path)
            IN  ConflictsFor(i) =
                    IF /\ lp \in DOMAIN fs
                       /\ op.hash # NONE
                       /\ hashBuffer(fs[lp]) # op.hash
                    THEN << [path |-> op.path, reason |-> "already_exists", op |-> i] >>
                    ELSE << >>

C12_Witness ==
    /\ ConflictsReturned
    /\ Len(operations) = 2
    /\ operations[1] = WithIds(<< Op("add", PA, NONE) >>)[1]
    /\ operations[2].type = "add" /\ operations[2].path = PB /\ operations[2].hash # NONE
    /\ join(TARGET, PA) \in DOMAIN fs
    /\ hashBuffer(fs[join(TARGET, PA)]) = operations[1].hash
    /\ join(TARGET, PB) \in DOMAIN fs
    /\ Len(conflicts) = 1
    /\ conflicts[1].path = PB
    /\ conflicts[1].reason = "already_exists"

ListedIn(list, path) == \E k \in 1..Len(list) : list[k] = path

(* C13: for a modify operation detectConflicts reports a modified_locally *)
(* conflict if and only if the destination exists and the target's status *)
(* lists the path as modified, staged or untracked; a modify onto a clean *)
(* existing file or onto a missing file raises no conflict.               *)
C13_ModifyConflict ==
    ConflictsReturned =>
        \A i \in OpsOfType("modify") :
            LET op == operations[i] IN
            ConflictsFor(i) =
                IF /\ ExistsInTarget(op.path)
                   /\ \/ ListedIn(tStatus.modified, op.path)
                      \/ ListedIn(tStatus.staged, op.path)
                      \/ ListedIn(tStatus.not_added, op.path)
                THEN << [path |-> op.path, reason |-> "modified_locally", op |-> i] >>
                ELSE << >>

C13_Witness ==
    /\ ConflictsReturned
    /\ Len(operations) = 2
    /\ operations[1].type = "modify" /\ operations[1].path = PA
    /\ operations[2].type = "modify" /\ operations[2].path = PB
    /\ join(TARGET, PA) \in DOMAIN fs
    /\ join(TARGET, PB) \in DOMAIN fs
    /\ tStatus = TargetStatus(<< >>, << >>, << PA >>)
    /\ conflicts = << [path |-> PA, reason |-> "modified_locally", op |-> 1] >>

(* C14: for a delete operation detectConflicts reports exactly one        *)
(* deleted_locally conflict on its path when the destination does not     *)
(* exist, and no conflict when it exists.                                 *)
C14_DeleteConflict ==
    ConflictsReturned =>
        \A i \in OpsOfType("delete") :
            LET op == operations[i] IN
            ConflictsFor(i) =
                IF ~ExistsInTarget(op.path)
                THEN << [path |-> op.path, reason |-> "deleted_locally", op |-> i] >>
                ELSE << >>

C14_Witness ==
    /\ ConflictsReturned
    /\ Len(operations) = 2
    /\ operations[1].type = "delete" /\ operations[1].path = PA
    /\ operations[2].type = "delete" /\ operations[2].path = PB
    /\ join(TARGET, PA) \in DOMAIN fs
    /\ ~ExistsInTarget(PB)
    /\ conflicts = << [path |-> PB, reason |-> "deleted_locally", op |-> 2] >>

(* C15: for a rename operation detectConflicts reports deleted_locally    *)
(* keyed on `from` if and only if `from` does not exist and,              *)
(* independently, already_exists keyed on `path` if and only if `path`    *)
(* exists, without comparing hashes: a rename raises 0, 1 or 2 conflicts, *)
(* an operation of any other type at most 1.                              *)
C15_RenameConflicts ==
    ConflictsReturned =>
        /\ \A i \in OpsOfType("rename") :
              LET op == operations[i] IN
              ConflictsFor(i) =
                 (IF ~ExistsInTarget(op.from)
                  THEN << [path |-> op.from, reason |-> "deleted_locally", op |-> i] >>
                  ELSE << >>)
                 \o
                 (IF ExistsInTarget(op.path)
                  THEN << [path |-> op.path, reason |-> "already_exists", op |-> i] >>
                  ELSE << >>)
        /\ \A i \in 1..Len(operations) :
              operations[i].type # "rename" => Len(ConflictsFor(i)) <= 1
        /\ \A k \in 1..Len(conflicts) : conflicts[k].op \in 1..Len(operations)

C15_Witness ==
    /\ ConflictsReturned
    /\ Len(operations) = 1
    /\ operations[1].type = "rename"
    /\ operations[1].from = PA /\ operations[1].path = PB
    /\ ~ExistsInTarget(PA)
    /\ join(TARGET, PB) \in DOMAIN fs
    /\ hashBuffer(fs[join(TARGET, PB)]) = operations[1].hash
    /\ conflicts = << [path |-> PA, reason |-> "deleted_locally", op |-> 1],
                      [path |-> PB, reason |-> "already_exists", op |-> 1] >>

BadArchive ==
    \/ ~archive.exists
    \/ ~archive.manifest
    \/ archive.version = NO_VERSION
    \/ archive.opsField \in { "absent", "object" }

(* C16: if the archive file is missing, has no manifest.json entry, or    *)
(* its manifest has no version or no list of operations, import ends with *)
(* a failure exit before anything in the target is created, modified or   *)
(* removed: no backup directory, no applied operation, no history entry.  *)
C16_BadArchiveAborts ==
    BadArchive =>
        /\ pc \in { "start", "failed" }
        /\ pc = "failed" => (exitCode = 1 /\ fs = pre)
        /\ dirs = { }
        /\ backupPath = NONE
        /\ sortedOps = << >>
        /\ applied = 0
        /\ history = << >>

C16_Witness ==
    /\ pc = "failed"
    /\ exitCode = 1
    /\ archive.exists
    /\ archive.manifest
    /\ archive.version = MANIFEST_VERSION
    /\ archive.opsField = "object"
    /\ ~opts.dryRun
    /\ join(TARGET, PA) \in DOMAIN fs
    /\ fs = pre

(* C17: when the apply phase ends with at least one failed operation, the *)
(* command ends with a non-zero exit status that differs from the status  *)
(* of a full success (0) and from that of a total failure (1).            *)
C17_PartialOutcome ==
    (pc = "done" /\ ai >= 1 /\ Len(errors) >= 1) => exitCode \notin { 0, 1 }

(* C18: with backup enabled, createBackup has gone through every file to  *)
(* back up before the first applyOperation starts, and while the backup   *)
(* is copying no operation has been applied and every file of the target  *)
(* is as it was at the start of the run.                                  *)
C18_BackupBeforeApply ==
    ~opts.noBackup =>
        /\ (pc = "apply" \/ ai >= 1 \/ sortedOps # << >>) =>
              /\ backupPath # NONE
              /\ bi = Len(filesToBackup(operations)) + 1
        /\ pc \in { "backup_begin", "backup" } =>
              /\ ai = 0
              /\ applied = 0
              /\ sortedOps = << >>
              /\ \A q \in DOMAIN pre :
                    /\ q \in DOMAIN fs
                    /\ ~Under(q, BackupRoot) => fs[q] = pre[q]

C18_Witness ==
    /\ ~opts.noBackup
    /\ pc = "apply"
    /\ ai = 2
    /\ applied = 1
    /\ Len(filesToBackup(operations)) = 2
    /\ bi = 3
    /\ sortedOps[1].type = "delete"
    /\ join(TARGET, sortedOps[1].path) \in DOMAIN pre
    /\ join(TARGET, sortedOps[1].path) \notin DOMAIN fs
    /\ fs[join(backupPath, sortedOps[1].path)] = pre[join(TARGET, sortedOps[1].path)]

ChangesOfType(type) == { i \in 1..Len(mChanges) : mChanges[i].type = type }

NonDelete == { i \in 1..Len(mChanges) : mChanges[i].type # "delete" }

(* the sum of `size` over the non-delete changes at positions i..Len *)
RECURSIVE SizeFrom(_)
SizeFrom(i) ==
    IF i > Len(mChanges) THEN 0
    ELSE (IF mChanges[i].type # "delete" THEN mChanges[i].size ELSE 0) + SizeFrom(i + 1)

(* C19: for every DetectedChange list, added + modified + renamed is the  *)
(* number of non-delete changes, deleted the number of delete changes and *)
(* totalSize the sum of `size` over the non-delete changes; the manifest  *)
(* createManifest builds carries these stats next to an operations list   *)
(* of the same length, order and types.                                   *)
C19_StatsConsistent ==
    mpc = "built" =>
        /\ mManifest.stats.added = Cardinality(ChangesOfType("add"))
        /\ mManifest.stats.modified = Cardinality(ChangesOfType("modify"))
        /\ mManifest.stats.renamed = Cardinality(ChangesOfType("rename"))
        /\ mManifest.stats.added + mManifest.stats.modified + mManifest.stats.renamed
              = Cardinality(NonDelete)
        /\ mManifest.stats.deleted = Cardinality(ChangesOfType("delete"))
        /\ mManifest.stats.totalSize = SizeFrom(1)
        /\ Len(mManifest.operations) = Len(mChanges)
        /\ \A i \in 1..Len(mChanges) :
              /\ mManifest.operations[i].type = mChanges[i].type
              /\ mManifest.operations[i].path = mChanges[i].path

C19_Witness ==
    /\ mpc = "built"
    /\ Len(mChanges) = 2
    /\ mChanges[1].type = "delete" /\ mChanges[1].size = 2
    /\ mChanges[2].type = "rename" /\ mChanges[2].size = 2
    /\ mManifest.stats = [added |-> 0, modified |-> 0, deleted |-> 1, renamed |-> 1,
                          totalSize |-> 2]
    /\ mManifest.operations[1].type = "delete"
    /\ mManifest.operations[2].type = "rename"

C21_RoundTrip ==
    mpc = "parsed" =>
        /\ ~mParsed.threw
        /\ mParsed.value = mManifest
        /\ mManifest = createManifest(mChanges, mMeta.source, mMeta.mode, mMeta.message, mMeta.now)

C21_Witness ==
    /\ mpc = "parsed"
    /\ mManifest.message = NO_MESSAGE
    /\ mManifest.operations = << >>
    /\ ~HasMember(mJson, "message")
    /\ ~mParsed.threw
    /\ mParsed.value.message = NO_MESSAGE
    /\ mParsed.value.operations = << >>

(***************************************************************************)
(* C22: the list detectChanges returns is ordered by detection stage: it   *)
(* is a run of renames, then a run of adds whose paths are staged          *)
(* creations, then a run of modifies (paths of the modified or staged      *)
(* lists), then a run of deletes, then a run of adds whose paths are       *)
(* untracked files.  A tree with one modified tracked file and one         *)
(* untracked file yields exactly [modify, add] on those two paths, with    *)
(* stats added=1, modified=1, deleted=0, renamed=0.                        *)
(***************************************************************************)
NormalizedOf(list) == { normalizePath(list[i]) : i \in 1..Len(list) }

InStages(changes, status, k1, k2, k3, k4) ==
    \A i \in 1..Len(changes) :
        LET c == changes[i] IN
        /\ i <= k1 => c.type = "rename"
        /\ (k1 < i /\ i <= k2) =>
              c.type = "add" /\ c.path \in NormalizedOf(status.created)
        /\ (k2 < i /\ i <= k3) =>
              c.type = "modify" /\ c.path \in NormalizedOf(status.modified \o status.staged)
        /\ (k3 < i /\ i <= k4) => c.type = "delete"
        /\ k4 < i =>
              c.type = "add" /\ c.path \in NormalizedOf(status.not_added)

OneModifiedOneUntracked ==
    /\ dStatus = [EmptyStatus EXCEPT !.modified = << PA >>, !.not_added = << DA >>]
    /\ { PA, DA } \subseteq DOMAIN dFiles
    /\ dSubmodules = { }

TypeAndPath(changes) ==
    [i \in 1..Len(changes) |-> [type |-> changes[i].type, path |-> changes[i].path]]

C22_StageOrder ==
    dpc = "detected" =>
        /\ \E k1, k2, k3, k4 \in 0..Len(dChanges) :
              /\ k1 <= k2 /\ k2 <= k3 /\ k3 <= k4
              /\ InStages(dChanges, dStatus, k1, k2, k3, k4)
        /\ OneModifiedOneUntracked =>
              /\ TypeAndPath(dChanges) =
                    << [type |-> "modify", path |-> PA], [type |-> "add", path |-> DA] >>
              /\ LET st == calculateStats(dChanges) IN
                 /\ st.added = 1 /\ st.modified = 1
                 /\ st.deleted = 0 /\ st.renamed = 0

C22_Witness ==
    /\ dpc = "detected"
    /\ OneModifiedOneUntracked
    /\ Len(dChanges) = 2
    /\ dChanges[1].type = "modify" /\ dChanges[1].path = PA
    /\ dChanges[2].type = "add" /\ dChanges[2].path = DA

(***************************************************************************)
(* C23: filterFiles(files, include, exclude) returns, in input order,      *)
(* exactly the input paths that match no pattern of the built-in denylist  *)
(* united with exclude and, when include is not empty, match at least one  *)
(* include pattern; a path that matches both an include pattern and an     *)
(* exclude pattern is never in the result.                                 *)
(***************************************************************************)
SomeMatch(patterns, path) == \E i \in 1..Len(patterns) : isMatch(patterns[i], path)

Denied(path) == SomeMatch(DEFAULT_EXCLUDES, path) \/ SomeMatch(fExclude, path)

Passes(path) ==
    /\ ~Denied(path)
    /\ fInclude # << >> => SomeMatch(fInclude, path)

C23_FilterFiles ==
    fpc = "done" =>
        /\ fOut = SelectSeq(fFiles, Passes)
        /\ \A i \in 1..Len(fOut) :
              ~(SomeMatch(fInclude, fOut[i]) /\ Denied(fOut[i]))

C23_Witness ==
    /\ fpc = "done"
    /\ fFiles = << DA, PA >>
    /\ fInclude = << ANY, D_ALL >>
    /\ fExclude = << D_ALL >>
    /\ fOut = << PA >>

(***************************************************************************)
(* C24: getAllFiles emits exactly one add entry, with the file's size and  *)
(* hash, for each distinct path among the tracked and the untracked paths  *)
(* that is a regular file at the time, and no other entry; and two full    *)
(* exports run one after the other, with nothing but the exports           *)
(* themselves touching the tree, write manifests with the same operations  *)
(* list (paths, types, sizes, hashes, order) and the same stats.           *)
(***************************************************************************)
CandidatePaths == { normalizePath(q) : q \in gTracked \cup DOMAIN dFiles }

EntriesFor(path) == { i \in 1..Len(gAll) : gAll[i].path = path }

HistoryShape ==
    /\ Len(history) <= 50
    /\ Len(history) = IF hSince < 50 THEN hSince ELSE 50
    /\ \A i \in 1..Len(history) : history[i].timestamp = clock - i + 1

LeavesOnlyByCapOrClear ==
    \A i \in 1..Len(history) :
        (\A j \in 1..Len(history') : history'[j] # history[i]) =>
            \/ hExists /\ ~hExists'
            \/ /\ Len(history) = 50 /\ i = 50
               /\ Len(history') = 50 /\ hSince' = hSince + 1

C25_HistoryCap == []HistoryShape /\ [][LeavesOnlyByCapOrClear]_vars

C25_Witness ==
    /\ hSince = 52
    /\ Len(history) = 50
    /\ history[1].timestamp = 52
    /\ history[50].timestamp = 3

(***************************************************************************)
(* C26: after an import in which no operation is skipped and none fails,   *)
(* the target holds at every non-delete operation's path exactly the       *)
(* archive payload for that path and holds no file at every delete         *)
(* operation's path, for every operation list the change detector can emit *)
(* (distinct paths, every rename with its `from`, every non-delete with    *)
(* its payload, all paths inside the target), chained and swapped renames  *)
(* in either order included.                                               *)
(***************************************************************************)
Emittable(ops) ==
    /\ \A i, j \in 1..Len(ops) : ops[i].path = ops[j].path => i = j
    /\ \A i \in 1..Len(ops) :
          /\ InsideTarget(ops[i].path)
          /\ ops[i].type = "rename" => (ops[i].from # NONE /\ InsideTarget(ops[i].from))
          /\ ops[i].type # "delete" =>
                getArchiveFilePath(ops[i].path) \in DOMAIN archive.entries

C26_TargetAfterImport ==
    (/\ ApplyEnded
     /\ errors = << >>
     /\ Len(sortedOps) = Len(archive.ops)
     /\ Emittable(archive.ops)) =>
        \A i \in 1..Len(archive.ops) :
            LET op == archive.ops[i]
                targetPath == join(TARGET, op.path)
            IN  IF op.type = "delete"
                THEN targetPath \notin DOMAIN fs
                ELSE /\ targetPath \in DOMAIN fs
                     /\ fs[targetPath] = archive.entries[getArchiveFilePath(op.path)]

(***************************************************************************)
(* C27: the apply loop attempts every operation of the sorted list exactly *)
(* once, in sorted order: each turn takes the operation at the loop index, *)
(* counts it as a success or records it with its error, and moves the      *)
(* index on by one, whether the operation failed or not; the loop ends     *)
(* only past the last operation, and then the successes plus the recorded  *)
(* failures equal the number of operations.                                *)
(***************************************************************************)
Attempted == ai - 1

TallyComplete ==
    /\ pc = "apply" =>
          /\ ai <= Len(sortedOps) + 1
          /\ applied + Len(errors) = Attempted
    /\ ApplyEnded =>
          /\ applied + Len(errors) = Len(sortedOps)
          /\ \A k \in 1..Len(errors) :
                \E i \in 1..Len(sortedOps) : errors[k].op = sortedOps[i]
          /\ \A k, l \in 1..Len(errors) :
                k < l => \E i, j \in 1..Len(sortedOps) :
                            /\ i < j
                            /\ errors[k].op = sortedOps[i]
                            /\ errors[l].op = sortedOps[j]

OneTurn ==
    /\ (pc = "apply" /\ pc' = "apply" /\ << ai, applied, errors, fs >> # << ai', applied', errors', fs' >>) =>
          /\ ai <= Len(sortedOps)
          /\ ai' = ai + 1
          /\ sortedOps' = sortedOps
          /\ \/ applied' = applied + 1 /\ errors' = errors
             \/ /\ applied' = applied
                /\ Len(errors') = Len(errors) + 1
                /\ errors'[Len(errors')].op = sortedOps[ai]
                /\ SubSeq(errors', 1, Len(errors)) = errors
    /\ (pc = "apply" /\ pc' = "done") => ai = Len(sortedOps) + 1

C27_EveryOperationAttempted == []TallyComplete /\ [][OneTurn]_vars

C27_Witness ==
    /\ ApplyEnded
    /\ Len(sortedOps) = 2
    /\ sortedOps[1].type = "add" /\ LacksPayload(sortedOps[1])
    /\ sortedOps[2].type = "add" /\ ~LacksPayload(sortedOps[2])
    /\ Len(errors) = 1 /\ errors[1].op = sortedOps[1]
    /\ applied = 1
    /\ join(TARGET, sortedOps[2].path) \in DOMAIN fs
    /\ fs[join(TARGET, sortedOps[2].path)] = Payload(getArchiveFilePath(sortedOps[2].path))

(***************************************************************************)
(* C28: an operation for which detectConflicts reported no conflict is     *)
(* never removed from the operations list by conflict resolution, whatever *)
(* the operator answers for the conflicts other operations raised.         *)
(***************************************************************************)
Unconflicted == { i \in 1..Len(archive.ops) :
                    \A k \in 1..Len(conflicts) : conflicts[k].op # archive.ops[i].id }

C28_UnconflictedKept ==
    Resolved =>
        \A i \in Unconflicted :
            \E k \in 1..Len(operations) : operations[k].id = archive.ops[i].id

(***************************************************************************)
(* C29: resolveSafePath(base, rel) returns the resolved absolute path if   *)
(* and only if that path equals the resolved base or starts with the       *)
(* resolved base followed by the separator, and throws the path-traversal  *)
(* error in every other case; whenever it returns, the returned path lies  *)
(* inside base: the segments of the base are the first segments of the     *)
(* returned path.                                                          *)
(***************************************************************************)
pResolvedFull == resolveFrom(pWd, pBase, pRel)

SegmentsBelow(path, base) ==
    LET ps == Segments(path)
        bs == Segments(base)
    IN  /\ Len(bs) <= Len(ps)
        /\ SubSeq(ps, 1, Len(bs)) = bs

C29_SafePathExact ==
    ppc = "returned" =>
        /\ IF \/ pResolvedFull = pResolvedBase
              \/ StartsWith(pResolvedFull, pResolvedBase \o << SEP >>)
           THEN pResult.ok /\ pResult.path = pResolvedFull
           ELSE ~pResult.ok /\ pResult.error = TRAVERSAL
        /\ pResult.ok =>
              /\ isAbsolute(pResult.path)
              /\ SegmentsBelow(pResult.path, pResolvedBase)

C29_Witness ==
    /\ ppc = "returned"
    /\ pWd = << SEP, "w" >>
    /\ pBase = ETC
    /\ pRel = << "a" >>
    /\ pResult.ok
    /\ pResult.path = << SEP, "w", SEP >> \o ETC \o << SEP, "a" >>

(***************************************************************************)
(* C30: when createBackup comes to a modify, delete or rename operation    *)
(* whose path, or whose `from` for a rename, resolves outside the target   *)
(* directory, its next step is the path-traversal throw: the import ends   *)
(* failed with exit status 1, with no operation applied, no history entry  *)
(* written and every file outside the backup directory as it was at the    *)
(* start of the run.  With backup enabled the apply phase is never reached *)
(* with such an operation in the list.                                     *)
(***************************************************************************)
Offending(op) ==
    /\ op.type \in { "modify", "delete", "rename" }
    /\ \/ ~InsideTarget(op.path)
       \/ op.type = "rename" /\ op.from # NONE /\ ~InsideTarget(op.from)

BackupMeetsOffending ==
    /\ pc = "backup"
    /\ bi <= Len(filesToBackup(operations))
    /\ Offending(filesToBackup(operations)[bi])

UntouchedOutsideBackup ==
    /\ \A q \in DOMAIN pre : ~Under(q, BackupRoot) => (q \in DOMAIN fs /\ fs[q] = pre[q])
    /\ \A q \in DOMAIN fs : ~Under(q, BackupRoot) => q \in DOMAIN pre

TraversalEndsImport ==
    BackupMeetsOffending =>
        /\ pc' = "failed"
        /\ exitCode' = 1
        /\ fs' = fs
        /\ history' = history
        /\ applied' = 0 /\ ai' = 0 /\ sortedOps' = << >>

NothingAppliedAfterTraversal ==
    /\ BackupMeetsOffending => (applied = 0 /\ ai = 0 /\ UntouchedOutsideBackup)
    /\ (pc = "failed" /\ backupPath # NONE /\ bi >= 1) =>
          /\ exitCode = 1
          /\ applied = 0 /\ ai = 0 /\ sortedOps = << >>
          /\ UntouchedOutsideBackup
    /\ (~opts.noBackup /\ (pc \in { "sort", "apply" } \/ ai >= 1)) =>
          \A i \in 1..Len(operations) : ~Offending(operations[i])

C30_TraversalStopsImport == []NothingAppliedAfterTraversal /\ [][TraversalEndsImport]_vars

C30_Witness ==
    /\ pc = "failed"
    /\ exitCode = 1
    /\ Len(filesToBackup(operations)) = 2
    /\ bi = 2
    /\ ~Offending(filesToBackup(operations)[1])
    /\ Offending(filesToBackup(operations)[2])
    /\ filesToBackup(operations)[2].type = "rename"
    /\ InsideTarget(filesToBackup(operations)[2].path)
    /\ \E q \in DOMAIN fs : Under(q, BackupRoot)
    /\ applied = 0
    /\ UntouchedOutsideBackup

(***************************************************************************)
(* Specification SpecMalformed: import runs of a manifest whose operations *)
(* may lack a member. parseManifest (manifest.ts) validates only `version` *)
(* and that `operations` is a list, so such operations reach the import.   *)
(* The target is a git repository, holds no directory in the way, and no   *)
(* path leaves it. `size` is read by the import only for display           *)
(* (import.ts:52, tree.ts:105) and is not carried by the model.            *)
(***************************************************************************)
NoPath(type) ==
    [type |-> type, path |-> NO_PATH, from |-> NONE,
     hash |-> IF type = "delete" THEN NONE
              ELSE hashBuffer(Payload(getArchiveFilePath(PA)))]

MalformedShapes ==
    { NoPath("modify"), NoPath("delete"), Op("rename", PB, NONE), AddWithoutHash(PA),
      Op("modify", PA, NONE), Op("delete", PB, NONE) }

Lacks(op) ==
    \/ op.path = NO_PATH
    \/ op.type = "rename" /\ op.from = NONE
    \/ op.type # "delete" /\ op.hash = NONE

NamedPayloads(shapes) ==
    { getArchiveFilePath(shapes[i].path) :
        i \in { j \in 1..Len(shapes) : shapes[j].type # "delete" /\ shapes[j].path # NO_PATH } }

InitMalformed ==
    /\ PathIdle
    /\ SortIdle
    /\ ExportIdle
    /\ DetectIdle
    /\ \E shapes \in SeqsUpTo(MalformedShapes, MaxOps) :
         \E names \in SUBSET NamedPayloads(shapes) :
            archive = Archive("ok", WithIds(shapes), [n \in names |-> Payload(n)])
    /\ opts \in [dryRun : BOOLEAN, force : BOOLEAN, noBackup : BOOLEAN]
    /\ isRepo = TRUE
    /\ tStatus \in { TargetStatus(m, << >>, << >>) : m \in { << >>, << PA >> } }
    /\ \E present \in SUBSET { PA, PB } :
         fs = [q \in { join(TARGET, r) : r \in present } |-> Old(q)]
    /\ dirs = { }
    /\ clock = 0
    /\ history = << >>
    /\ runs = 1
    /\ pc = "start"
    /\ RunIdle

NextMalformed ==
    \/ Load
    \/ DryRun
    \/ DetectConflicts
    \/ Prompt
    \/ ForceOverwrite
    \/ Confirm
    \/ BackupBegin
    \/ BackupStep
    \/ BackupReturn
    \/ BeginApply
    \/ ApplyStep
    \/ Finish

SpecMalformed == InitMalformed /\ [][NextMalformed]_vars

(***************************************************************************)
(* C31. An operation that lacks an expected member (`path`; `from` on a    *)
(* rename; `hash` on a non-delete) is treated as inapplicable: the import  *)
(* does not end in a failure because of it, no conflict is reported for    *)
(* it, and an import whose operations all lack a member ends with the      *)
(* target's files as they were (outside the backup directory).             *)
(***************************************************************************)
LackingOps == { i \in 1..Len(archive.ops) : Lacks(archive.ops[i]) }

C31_LackingFieldInapplicable ==
    LackingOps # { } =>
        /\ pc # "failed"
        /\ \A k \in 1..Len(conflicts) : conflicts[k].op \notin LackingOps
        /\ (pc = "done" /\ LackingOps = 1..Len(archive.ops)) => UntouchedOutsideBackup

(***************************************************************************)
(* C32. In force mode every detected conflict is resolved as overwrite in  *)
(* one step, without a prompt, and no operation is dropped: from conflict  *)
(* detection on, manifest.operations (what createBackup and                *)
(* sortOperationsForApply are handed) is the manifest's list in manifest   *)
(* order, and the list applied is its sort.                                *)
(***************************************************************************)
ForcedPastDetection == opts.force /\ ~opts.dryRun /\ ci >= 1

AllOverwrite ==
    /\ DOMAIN resolutions = { conflicts[k].path : k \in 1..Len(conflicts) }
    /\ \A q \in DOMAIN resolutions : resolutions[q] = "overwrite"

ForceKeepsOperations ==
    ForcedPastDetection =>
        /\ operations = archive.ops
        /\ pc # "resolve" => (conflicts # << >> => AllOverwrite)
        /\ pc \in { "apply", "done" } => sortedOps = sortOperationsForApply(archive.ops)
        /\ bi >= 1 /\ bi <= Len(filesToBackup(archive.ops)) =>
              filesToBackup(operations)[bi] = filesToBackup(archive.ops)[bi]

ForceResolvesAtOnce ==
    (opts.force /\ pc = "resolve") =>
        /\ pc' = "confirm"
        /\ operations' = operations
        /\ Len(answers') = Len(conflicts)
        /\ \A k \in 1..Len(conflicts) : resolutions'[conflicts[k].path] = "overwrite"

C32_ForceDropsNothing == []ForceKeepsOperations /\ [][ForceResolvesAtOnce]_vars

C32_Witness ==
    /\ opts.force
    /\ pc = "done"
    /\ Len(archive.ops) = 2
    /\ Len(conflicts) >= 2
    /\ operations = archive.ops
    /\ sortedOps # archive.ops
    /\ applied = 2

(***************************************************************************)
(* C33. Applying a rename: with a payload for `path` in the archive, the   *)
(* file at `from` is removed when present and `path` holds the payload;    *)
(* without one, a present `from` is moved to `path` with its content;      *)
(* otherwise nothing changes. Each case counts as a success, touches no    *)
(* other file, and in the first two `path` exists afterwards and `from`,   *)
(* when it differs from `path`, does not.                                  *)
(***************************************************************************)
RenameTurn == pc = "apply" /\ ai <= Len(sortedOps) /\ sortedOps[ai].type = "rename"

OthersKept(a, b) ==
    \A q \in (DOMAIN fs) \cup (DOMAIN fs') :
        q \notin { a, b } => (q \in DOMAIN fs /\ q \in DOMAIN fs' /\ fs'[q] = fs[q])

RenameEffect ==
    RenameTurn =>
        LET op         == sortedOps[ai]
            targetPath == join(TARGET, op.path)
            fromPath   == join(TARGET, op.from)
            entry      == getArchiveFilePath(op.path)
        IN  /\ applied' = applied + 1
            /\ errors' = errors
            /\ ai' = ai + 1
            /\ OthersKept(targetPath, fromPath)
            /\ IF entry \in DOMAIN archive.entries
               THEN /\ targetPath \in DOMAIN fs'
                    /\ fs'[targetPath] = archive.entries[entry]
                    /\ fromPath # targetPath => fromPath \notin DOMAIN fs'
               ELSE IF fromPath \in DOMAIN fs
               THEN /\ targetPath \in DOMAIN fs'
                    /\ fs'[targetPath] = fs[fromPath]
                    /\ fromPath # targetPath => fromPath \notin DOMAIN fs'
               ELSE fs' = fs

C33_RenameApplied == [][RenameEffect]_vars

RenamedAt(k) ==
    /\ k <= Len(sortedOps)
    /\ sortedOps[k].type = "rename"
    /\ ai > k

C33_Witness ==
    /\ pc = "done"
    /\ Len(sortedOps) = 1
    /\ RenamedAt(1)
    /\ getArchiveFilePath(sortedOps[1].path) \notin DOMAIN archive.entries
    /\ join(TARGET, sortedOps[1].from) \in DOMAIN pre
    /\ join(TARGET, sortedOps[1].path) \in DOMAIN pre
    /\ join(TARGET, sortedOps[1].path) \in DOMAIN fs
    /\ fs[join(TARGET, sortedOps[1].path)] = pre[join(TARGET, sortedOps[1].from)]
    /\ join(TARGET, sortedOps[1].from) \notin DOMAIN fs
    /\ applied = 1

(***************************************************************************)
(* C34. Every non-submodule path of the status snapshot's deleted set has  *)
(* exactly one change in detectChanges' output: a delete with size 0 and   *)
(* no hash, or the change an earlier stage (rename, staged add, modify)    *)
(* emitted for that path. No deleted path is left without a change.        *)
(***************************************************************************)
DeletedPaths ==
    { normalizePath(dStatus.deleted[i]) : i \in 1..Len(dStatus.deleted) } \ dSubmodules

ChangesAt(path) == { k \in 1..Len(dChanges) : dChanges[k].path = path }

C34_DeletedEmitted ==
    dpc = "detected" =>
        \A path \in DeletedPaths :
            /\ Cardinality(ChangesAt(path)) = 1
            /\ \A k \in ChangesAt(path) :
                  \/ dChanges[k].type = "delete" /\ dChanges[k].size = 0
                        /\ dChanges[k].hash = NO_HASH
                  \/ dChanges[k].type \in { "rename", "add", "modify" }

(***************************************************************************)
(* C35. Every rename, add or modify that detectChanges emits names a path  *)
(* that is a regular file at detection time and carries that file's size   *)
(* and hash; a candidate of those stages whose path is no regular file     *)
(* gets no rename, add or modify.                                          *)
(***************************************************************************)
NonDeleteCandidates ==
    { normalizePath(dStatus.renamed[i].to) : i \in 1..Len(dStatus.renamed) }
        \cup UNION { { normalizePath(dStatus[field][i]) : i \in 1..Len(dStatus[field]) } :
                        field \in { "created", "modified", "staged", "not_added" } }

C35_NonDeleteIsRegularFile ==
    dpc = "detected" =>
        /\ \A k \in 1..Len(dChanges) :
              dChanges[k].type # "delete" =>
                 /\ dChanges[k].path \in DOMAIN dFiles
                 /\ dChanges[k].size = Len(dFiles[dChanges[k].path])
                 /\ dChanges[k].hash = hashBuffer(dFiles[dChanges[k].path])
        /\ \A path \in NonDeleteCandidates \ DOMAIN dFiles :
              \A k \in ChangesAt(path) : dChanges[k].type = "delete"

C35_Witness ==
    /\ dpc = "detected"
    /\ \E path \in NonDeleteCandidates \ (DOMAIN dFiles \cup dSubmodules) :
          ChangesAt(path) = { }
    /\ \E k \in 1..Len(dChanges) :
          /\ dChanges[k].type = "rename"
          /\ dChanges[k].path \in DOMAIN dFiles
          /\ dChanges[k].hash = hashBuffer(dFiles[dChanges[k].path])
          /\ dChanges[k].size = Len(dFiles[dChanges[k].path])

(***************************************************************************)
(* C36. The entry name getArchiveFilePath gives an operation's path lies   *)
(* under files/, and is neither manifest.json nor an entry under meta/     *)
(* (the two entries createArchive writes besides the payloads), also for   *)
(* a path with `..` segments.                                              *)
(***************************************************************************)
MANIFEST_JSON == << "m", "a", "n", "i", "f", "e", "s", "t", ".", "j", "s", "o", "n" >>
META_DIR == << "m", "e", "t", "a" >>

PayloadEntryNames ==
    { getArchiveFilePath(archive.ops[i].path) :
        i \in { j \in 1..Len(archive.ops) : archive.ops[j].type # "delete" } }

C36_PayloadUnderFiles ==
    \A name \in PayloadEntryNames :
        /\ StartsWith(name, FILES \o << SEP >>)
        /\ name # MANIFEST_JSON
        /\ ~StartsWith(name, META_DIR \o << SEP >>)

(***************************************************************************)
(* C37. With a target that is no git repository, an import that is no dry  *)
(* run gets through conflict detection, with no path counted as locally    *)
(* modified, and goes on to backup and apply: it does not end in a failure *)
(* before the backup has begun.                                            *)
(***************************************************************************)
NonRepoImport == ~isRepo /\ ~opts.dryRun /\ ~LoadThrows(archive)

FailedBeforeBackup == pc = "failed" /\ backupPath = NONE /\ sortedOps = << >>

C37_NonRepoImportProceeds ==
    NonRepoImport =>
        /\ ~FailedBeforeBackup
        /\ ci >= 1 =>
              conflicts = detectConflicts(archive.ops, TARGET, pre, { },
                                          TargetStatus(<< >>, << >>, << >>))

(***************************************************************************)
(* C38. No change detectChanges emits has its `path` in the submodule set, *)
(* whichever status lists (renamed target, created, modified, staged,      *)
(* deleted, not_added) name that path.                                     *)
(***************************************************************************)
C38_NoSubmodulePath ==
    dpc = "detected" => \A k \in 1..Len(dChanges) : dChanges[k].path \notin dSubmodules

ListsNaming(path) ==
    { field \in StatusFields :
        \E i \in 1..Len(dStatus[field]) : normalizePath(dStatus[field][i]) = path }

C38_Witness ==
    /\ dpc = "detected"
    /\ dSubmodules = { DA }
    /\ DA \in DOMAIN dFiles
    /\ \E i \in 1..Len(dStatus.renamed) : normalizePath(dStatus.renamed[i].to) = DA
    /\ "deleted" \in ListsNaming(DA)
    /\ \E i \in 1..Len(dStatus.deleted) : dStatus.deleted[i] = DA_BSL
    /\ ChangesAt(DA) = { }
    /\ ChangesAt(PA) # { }

(***************************************************************************)
(* Specification SpecClean: cleanOldBackups(TARGET, keepCount) on a target *)
(* whose .sync-backup directory is missing, empty, or holds backup         *)
(* directories (empty or with a file), a directory of another name and a   *)
(* plain file with the backup prefix.                                      *)
(***************************************************************************)
MaxBackups == 3
MaxKeep == 2

BackupName(n) == BACKUP_PREFIX \o Pad2(n)

OTHER_DIR == << "o", "l", "d" >>
PREFIXED_FILE == BACKUP_PREFIX \o << "f" >>

BackupTrees ==
    { [filled |-> filled, empty |-> empty, extraDirs |-> xd, extraFiles |-> xf] :
        filled \in SUBSET (0..(MaxBackups - 1)), empty \in SUBSET (0..(MaxBackups - 1)),
        xd \in SUBSET { OTHER_DIR, << >> }, xf \in SUBSET { PREFIXED_FILE } }

InitClean ==
    /\ PathIdle
    /\ SortIdle
    /\ DetectIdle
    /\ FilterIdle
    /\ SnapshotIdle
    /\ HistoryIdle
    /\ PeerIdle
    /\ archive = Archive("ok", << >>, EmptyFn)
    /\ opts = [dryRun |-> FALSE, force |-> FALSE, noBackup |-> FALSE]
    /\ isRepo = TRUE
    /\ tStatus = TargetStatus(<< >>, << >>, << >>)
    /\ \E tree \in BackupTrees :
         /\ tree.filled \cap tree.empty = { }
         /\ fs = [q \in { join3(TARGET, BACKUP_DIR, BackupName(n) \o << SEP >> \o PA) :
                            n \in tree.filled }
                        \cup { join3(TARGET, BACKUP_DIR, name) : name \in tree.extraFiles }
                     |-> Old(q)]
         /\ dirs = { join3(TARGET, BACKUP_DIR, BackupName(n)) : n \in tree.empty }
                      \cup { join3(TARGET, BACKUP_DIR, name) : name \in tree.extraDirs }
    /\ clock = 0
    /\ history = << >>
    /\ runs = 0
    /\ pc = "idle"
    /\ RunIdle
    /\ keepCount \in 0..MaxKeep
    /\ removed = -1
    /\ kpc = "call"

(* backup.ts lines 99-115 *)
CleanOldBackups ==
    /\ kpc = "call"
    /\ \E r \in { cleanOldBackups(TARGET, keepCount, fs, dirs) } :
         /\ removed' = r.returned
         /\ fs' = r.fs
         /\ dirs' = r.dirs
    /\ kpc' = "returned"
    /\ UNCHANGED << keepCount, peerVars, filterVars, snapshotVars, historyVars,
                    pathVars, sortVars, detectVars, envVars, manifestVars, clock, history,
                    runVars >>

NextClean == CleanOldBackups

SpecClean == InitClean /\ [][NextClean]_vars

(***************************************************************************)
(* C39. cleanOldBackups(target, N) removes exactly the backup directories  *)
(* other than the N with the greatest names, returns how many it removed,  *)
(* and removes nothing and returns 0 when at most N backups exist.         *)
(***************************************************************************)
Entries == (DOMAIN fs) \cup dirs

BackupDirs ==
    { b \in { BackupRoot \o << SEP >> \o BackupName(n) : n \in 0..MaxBackups } :
        \E q \in Entries : Under(q, b) }

Newest(n) == { b \in BackupDirs : Cardinality({ c \in BackupDirs : PathLess(b, c) }) < n }

CleanEffect ==
    kpc = "call" =>
        LET doomed == BackupDirs \ Newest(keepCount)
        IN  /\ removed' = Cardinality(doomed)
            /\ DOMAIN fs' = { q \in DOMAIN fs : \A b \in doomed : ~Under(q, b) }
            /\ \A q \in DOMAIN fs' : fs'[q] = fs[q]
            /\ dirs' = { q \in dirs : \A b \in doomed : ~Under(q, b) }
            /\ Cardinality(BackupDirs) <= keepCount =>
                  (removed' = 0 /\ fs' = fs /\ dirs' = dirs)

C39_KeepsNewest == [][CleanEffect]_vars

C39_Witness ==
    /\ kpc = "returned"
    /\ keepCount = 1
    /\ removed = 2
    /\ BackupDirs = { BackupRoot \o << SEP >> \o BackupName(2) }
    /\ join3(TARGET, BACKUP_DIR, OTHER_DIR) \in dirs
    /\ join3(TARGET, BACKUP_DIR, PREFIXED_FILE) \in DOMAIN fs

(***************************************************************************)
(* Specification SpecConcurrent: two forced imports of the same archive    *)
(* run at the same time against the same target, as two processes. The     *)
(* first is the run of Spec; the second keeps its locals in `peer` and     *)
(* takes the same steps of executeImport. The processes share the files,   *)
(* the directories, the history file and the clock, and nothing else; a    *)
(* step is one turn of a loop or one call between two awaits. Detection,   *)
(* forced resolution and the skipped confirmation of the second run touch  *)
(* only its locals and are one step.                                       *)
(***************************************************************************)
ConcurrentShapes == { Op("modify", PA, NONE), Op("delete", PB, NONE) }

InitConcurrent ==
    /\ PathIdle
    /\ SortIdle
    /\ DetectIdle
    /\ FilterIdle
    /\ SnapshotIdle
    /\ HistoryIdle
    /\ CleanIdle
    /\ \E shapes \in SeqsUpTo(ConcurrentShapes, MaxOps) :
         archive = Archive("ok", WithIds(shapes),
                           [n \in PayloadNames(shapes) |-> Payload(n)])
    /\ opts = [dryRun |-> FALSE, force |-> TRUE, noBackup |-> FALSE]
    /\ isRepo = TRUE
    /\ tStatus \in { TargetStatus(m, << >>, << >>) : m \in { << >>, << PA >> } }
    /\ \E present \in SUBSET { PA, PB } :
         fs = [q \in { join(TARGET, r) : r \in present } |-> Old(q)]
    /\ dirs = { }
    /\ clock = 0
    /\ history = << >>
    /\ runs = 1
    /\ pc = "start"
    /\ RunIdle
    /\ peer = [NoPeer EXCEPT !.pc = "start"]

PeerFrame ==
    UNCHANGED << cleanVars, filterVars, snapshotVars, historyVars, pathVars, sortVars,
                 detectVars, envVars, manifestVars, runVars >>

(* import.ts lines 30-70 *)
PeerLoad ==
    /\ peer.pc = "start"
    /\ IF LoadThrows(archive) \/ buildTreeThrows(archive.ops)
       THEN peer' = [peer EXCEPT !.pc = "failed", !.exitCode = 1]
       ELSE peer' = [peer EXCEPT !.pc = "detect", !.operations = archive.ops]
    /\ PeerFrame
    /\ UNCHANGED diskVars

(* import.ts lines 100-149 with --force *)
PeerDetect ==
    /\ peer.pc = "detect"
    /\ IF ~isRepo \/ detectConflictsThrows(peer.operations, TARGET, fs, dirs)
       THEN peer' = [peer EXCEPT !.pc = "failed", !.exitCode = 1]
       ELSE \E found \in { detectConflicts(peer.operations, TARGET, fs, dirs, tStatus) } :
              peer' = [peer EXCEPT
                         !.conflicts = found,
                         !.operations =
                             FilterSkipped(peer.operations,
                                 [q \in { found[i].path : i \in 1..Len(found) } |-> "overwrite"]),
                         !.pc = "backup_begin"]
    /\ PeerFrame
    /\ UNCHANGED diskVars

(* backup.ts lines 16-19 *)
PeerBackupBegin ==
    /\ peer.pc = "backup_begin"
    /\ peer' = [peer EXCEPT !.backupPath = BackupPathAt(TARGET, clock), !.bi = 1,
                            !.pc = "backup"]
    /\ dirs' = dirs \cup { BackupPathAt(TARGET, clock) }
    /\ PeerFrame
    /\ UNCHANGED << fs, clock, history >>

(* backup.ts lines 26-41 *)
PeerBackupStep ==
    /\ peer.pc = "backup"
    /\ ~createBackupReturns(peer.bi, Len(filesToBackup(peer.operations)))
    /\ \E r \in { BackupOne(filesToBackup(peer.operations)[peer.bi], TARGET,
                            peer.backupPath, fs, dirs) } :
         IF r.ok
         THEN /\ fs' = r.fs
              /\ peer' = [peer EXCEPT !.bi = @ + 1]
         ELSE /\ peer' = [peer EXCEPT !.pc = "failed", !.exitCode = 1]
              /\ UNCHANGED fs
    /\ PeerFrame
    /\ UNCHANGED << dirs, clock, history >>

(* backup.ts line 43, import.ts lines 156-168 *)
PeerBeginApply ==
    /\ peer.pc = "backup"
    /\ createBackupReturns(peer.bi, Len(filesToBackup(peer.operations)))
    /\ peer' = [peer EXCEPT !.sortedOps = sortOperationsForApply(peer.operations),
                            !.ai = 1, !.pc = "apply"]
    /\ PeerFrame
    /\ UNCHANGED diskVars

(* import.ts lines 170-181 *)
PeerApplyStep ==
    /\ peer.pc = "apply"
    /\ peer.ai <= Len(peer.sortedOps)
    /\ \E r \in { applyOperation(archive.entries, peer.sortedOps[peer.ai], TARGET, fs, dirs) } :
         /\ fs' = r.fs
         /\ IF r.ok
            THEN peer' = [peer EXCEPT !.applied = @ + 1, !.ai = @ + 1]
            ELSE peer' = [peer EXCEPT
                            !.errors = Append(@, [op |-> peer.sortedOps[peer.ai],
                                                  error |-> r.error]),
                            !.ai = ContinueAfterError(peer.ai, Len(peer.sortedOps))]
    /\ PeerFrame
    /\ UNCHANGED << dirs, clock, history >>

(* import.ts lines 183-210 *)
PeerFinish ==
    /\ peer.pc = "apply"
    /\ peer.ai > Len(peer.sortedOps)
    /\ history' = addHistoryEntry(history, [timestamp |-> clock, type |-> "import"])
    /\ peer' = [peer EXCEPT !.pc = "done", !.exitCode = 0]
    /\ PeerFrame
    /\ UNCHANGED << fs, dirs, clock >>

NextConcurrent ==
    \/ Load
    \/ DetectConflicts
    \/ ForceOverwrite
    \/ Confirm
    \/ BackupBegin
    \/ BackupStep
    \/ BackupReturn
    \/ BeginApply
    \/ ApplyStep
    \/ Finish
    \/ PeerLoad
    \/ PeerDetect
    \/ PeerBackupBegin
    \/ PeerBackupStep
    \/ PeerBeginApply
    \/ PeerApplyStep
    \/ PeerFinish
    \/ Elapse

SpecConcurrent == InitConcurrent /\ [][NextConcurrent]_vars

(***************************************************************************)
(* C40. Two imports running at once on one target are not isolated: a      *)
(* backup step copies whatever the target holds at that moment, so when    *)
(* the other run's apply step has already overwritten a file, the copy in  *)
(* this run's backup is the overwritten content and the original is not    *)
(* in this run's backup. Every backup step stores the content present at   *)
(* that step, and a backup holds non-original content only after an apply  *)
(* step of some run.                                                       *)
(***************************************************************************)
PeerCopies ==
    /\ peer.pc = "backup"
    /\ peer'.bi = peer.bi + 1
    /\ fileExists(fs, dirs, join(TARGET, filesToBackup(peer.operations)[peer.bi].path))

BackupCopiesCurrent ==
    PeerCopies =>
        LET path == filesToBackup(peer.operations)[peer.bi].path
            dest == join(peer.backupPath, path)
        IN  /\ dest \in DOMAIN fs'
            /\ fs'[dest] = fs[join(TARGET, path)]

Originals == { Old(join(TARGET, r)) : r \in { PA, PB } }

BackedUpFiles == { q \in DOMAIN fs : Under(q, BackupRoot) }

StaleBackupNeedsApply ==
    (\E q \in BackedUpFiles : fs[q] \notin Originals) => (ai >= 2 \/ peer.ai >= 2)

C40_BackupNotIsolated == []StaleBackupNeedsApply /\ [][BackupCopiesCurrent]_vars

C40_Witness ==
    /\ pc = "done"
    /\ peer.pc = "done"
    /\ peer.backupPath # backupPath
    /\ join(TARGET, PA) \in DOMAIN pre
    /\ join(backupPath, PA) \in DOMAIN fs
    /\ fs[join(backupPath, PA)] = Old(join(TARGET, PA))
    /\ join(peer.backupPath, PA) \in DOMAIN fs
    /\ fs[join(peer.backupPath, PA)] = Payload(getArchiveFilePath(PA))
    /\ \A q \in DOMAIN fs :
          Under(q, peer.backupPath) => fs[q] # Old(join(TARGET, PA))

====
